---- MODULE Spec2Model ----
(***************************************************************************)
(* Model of the file archiver's planner/mover (services/mover.py) over an  *)
(* explicit file system: sessions, file records, the dry-run plan, the     *)
(* physical moves with collision resolution, and the rollback; and of the  *)
(* services before it: the classification table (core/config.py), the      *)
(* classifier (services/classifier.py) and the scanner                     *)
(* (services/scanner.py).                                                  *)
(***************************************************************************)
EXTENDS Integers, Sequences, FiniteSets, TLC

VARIABLES
    clock,              \* datetime.now(), in clock ticks
    mover,              \* the FileMover: collision_policy, use_source_parent
    sessions,           \* the ArchiveSession objects created so far
    files,              \* the FileInfo records (one list shared by the sessions)
    plans,              \* per session, the ArchivePlan of its last plan_archive
    disk,               \* file system: path of a regular file -> the file
    dirs,               \* file system: the directories that exist
    readonly,           \* file system: directories nothing can be written into
    last,               \* the last call of the mover and what it returned
    classifier,         \* the FileClassifier: enable_hashing
    scanner,            \* the DirectoryScanner: ignore_hidden, recursive
    denied,             \* file system: files and directories that cannot be read
    result,             \* the last call of the classifier, scanner or table
    pc                  \* where the execute_archive that runs step by step is

vars == <<clock, mover, sessions, files, plans, disk, dirs, readonly, last,
          classifier, scanner, denied, result, pc>>

----------------------------------------------------------------------------
(* Bounds *)

MaxFiles == 2           \* records in the session
MaxSuffix == 2          \* pre-existing name_1 .. name_MaxSuffix variants
MaxSessions == 2        \* create_session calls
MaxClock == 3           \* last clock tick
MaxRecursion == 2       \* depth of the interpreter's call stack
MaxExtLen == 3          \* characters of an extension given to the table
MaxCount == 12          \* files counted in a directory (and some large counts)
MaxTypes == 11          \* distinct extensions counted in a directory
ManyFiles == 12         \* files of the crowded directory
MaxTopN == 2            \* top_n of get_recommendations
MaxRecords == 5         \* records in a list given to find_duplicates

----------------------------------------------------------------------------
(* Program constants *)

SESSION_PREFIX == "Files_Organized"
MIN_FILES_FOR_RECOMMENDATION == 10
DIVERSITY_WEIGHT == 7   \* 0.7, in tenths
COUNT_WEIGHT == 3       \* 0.3, in tenths
TicksPerSecond == 2     \* format_timestamp keeps whole seconds of the clock

PENDING == "pending"
MOVED == "moved"
SKIPPED == "skipped"
DUPLICATE == "duplicate"
ERROR == "error"
FileStatus == {PENDING, MOVED, SKIPPED, DUPLICATE, ERROR}

SUFFIX == "suffix"
HASH == "hash"
SKIP == "skip"
OVERWRITE == "overwrite"
CollisionPolicy == {SUFFIX, HASH, SKIP, OVERWRITE}

\* The folder names of the categories the pool uses; each name's leading
\* pictograph, the same in every run, is left out of the string.
CATEGORY_DISPLAY_NAMES ==
    [c \in {"documents", "images", "other"} |->
        CASE c = "documents" -> "Documents"
          [] c = "images" -> "Images"
          [] c = "other" -> "Other"]

----------------------------------------------------------------------------
(* Extensions and the classification table.  An extension is the sequence  *)
(* of its characters.                                                      *)

Txt == <<".", "t", "x", "t">>
Jpg == <<".", "j", "p", "g">>
Pdf == <<".", "p", "d", "f">>
Py == <<".", "p", "y">>

\* str.lower() of one character.
LowerChar(c) ==
    CASE c = "D" -> "d" [] c = "F" -> "f" [] c = "G" -> "g" [] c = "H" -> "h"
      [] c = "J" -> "j" [] c = "P" -> "p" [] c = "S" -> "s" [] c = "T" -> "t"
      [] c = "X" -> "x" [] c = "Y" -> "y"
      [] OTHER -> c

\* str.lower()
lower(str) == [i \in 1..Len(str) |-> LowerChar(str[i])]

\* str.lstrip(chars) for one character.
RECURSIVE lstrip(_, _)
lstrip(str, c) ==
    IF Len(str) > 0 /\ str[1] = c THEN lstrip(Tail(str), c) ELSE str

\* get_file_extension: path.suffix without its dots, lower-cased.
get_file_extension(path) == lower(lstrip(path.name.ext, "."))

\* The table, in the order of the dict, with some of each category's
\* extensions: "sh" is in code and in executables, "pdf" in documents and in
\* ebooks, as in the full table.
CATEGORIES == <<
    [category |-> "documents",     extensions |-> {<<"p", "d", "f">>, <<"t", "x", "t">>}],
    [category |-> "spreadsheets",  extensions |-> {}],
    [category |-> "presentations", extensions |-> {<<"p", "p", "t">>}],
    [category |-> "images",        extensions |-> {<<"j", "p", "g">>}],
    [category |-> "videos",        extensions |-> {}],
    [category |-> "audio",         extensions |-> {}],
    [category |-> "archives",      extensions |-> {}],
    [category |-> "code",          extensions |-> {<<"p", "y">>, <<"h">>, <<"s", "h">>, <<"t", "s">>}],
    [category |-> "executables",   extensions |-> {<<"s", "h">>}],
    [category |-> "fonts",         extensions |-> {<<"t", "t", "f">>}],
    [category |-> "ebooks",        extensions |-> {<<"p", "d", "f">>}],
    [category |-> "design",        extensions |-> {<<"p", "s", "d">>}],
    [category |-> "databases",     extensions |-> {}],
    [category |-> "other",         extensions |-> {}] >>

\* The loop of get_category_for_extension from entry k on: the first
\* category that lists the extension, else "other".
RECURSIVE CategoryFrom(_, _)
CategoryFrom(k, ext_lower) ==
    IF k > Len(CATEGORIES) THEN "other"
    ELSE IF ext_lower \in CATEGORIES[k].extensions THEN CATEGORIES[k].category
    ELSE CategoryFrom(k + 1, ext_lower)

\* get_category_for_extension without the lower-casing.
get_category_for_extension_cased(ext) == CategoryFrom(1, lstrip(ext, "."))

get_category_for_extension(ext) == CategoryFrom(1, lstrip(lower(ext), "."))

----------------------------------------------------------------------------
(* Paths.  A directory is a sequence of components, a component a sequence *)
(* of the strings that "_" joins; a file name is its stem (the strings     *)
(* that "_" joins) and its extension, Path.suffix, a sequence of           *)
(* characters; a file path is parent / name.                               *)

Home == << <<"home">> >>
DirA == Home \o << <<"A">> >>
DirASub == DirA \o << <<"sub">> >>
DirB == Home \o << <<"B">> >>
ARCHIVE_BASE_DIR == Home \o << <<"Desktop">> >>

Name(stem, ext) == [stem |-> stem, ext |-> ext]
PathOf(parent, name) == [parent |-> parent, name |-> name]
NoPath == PathOf(<<>>, Name(<<>>, <<>>))       \* destination = None
NoHash == <<>>                               \* hash = None
NoCategory == "None"                         \* category = None
NoPlan == [session |-> 0, operations |-> <<>>, warnings |-> <<>>]

Parent(dir) == SubSeq(dir, 1, Len(dir) - 1)

----------------------------------------------------------------------------
(* The files the classifier found.  Each pool entry is one file below the  *)
(* scanned directories: its path, its content, and whether the record of   *)
(* it came from the except clause of classify_file.                        *)

NameX == Name(<<"x">>, Txt)
NameX1 == Name(<<"x", "1">>, Txt)           \* "x_1.txt"
NameY == Name(<<"y">>, Jpg)

Pool == <<
    [path |-> PathOf(DirA, NameY),    data |-> "d3", failed |-> FALSE],
    [path |-> PathOf(DirA, NameX),    data |-> "d1", failed |-> FALSE],
    [path |-> PathOf(DirASub, NameX), data |-> "d1", failed |-> FALSE],
    [path |-> PathOf(DirB, NameX),    data |-> "d2", failed |-> FALSE],
    [path |-> PathOf(DirA, NameX1),   data |-> "d4", failed |-> TRUE] >>

\* hashlib's hexdigest of a content; equal content, equal digest.
\* A digest is <<its first 8 hex characters, the rest>>.
hexdigest(data) ==
    CASE data = "d1" -> <<"aaaaaaaa", "01">>
      [] data = "d2" -> <<"bbbbbbbb", "02">>
      [] data = "d3" -> <<"cccccccc", "03">>
      [] data = "d4" -> <<"dddddddd", "04">>
      [] OTHER -> <<"eeeeeeee", "05">>

\* st_size of a content: its length in bytes, never 0 here.
st_size(data) == IF data = "d3" THEN 3 ELSE 2

\* What a read sees: [disk, denied].  get_file_hash: the digest, None when
\* the file cannot be opened (it is not there, or it may not be read).
get_file_hash(file_path, fs) ==
    IF file_path \in DOMAIN fs.disk /\ file_path \notin fs.denied.files
    THEN hexdigest(fs.disk[file_path].data) ELSE NoHash

\* get_file_size: st_size, 0 when stat fails (the file is not there).
get_file_size(file_path, fs) ==
    IF file_path \in DOMAIN fs.disk THEN st_size(fs.disk[file_path].data) ELSE 0

\* The except clause of classify_file.
ClassifyFailed(file_path) ==
    [path |-> file_path, size |-> 0, extension |-> <<>>, category |-> "other",
     hash |-> NoHash, status |-> ERROR, destination |-> NoPath, error |-> "classify"]

\* classify_file: the FileInfo of file_path; raises says that the try block
\* raised (file_path is a str, which has no suffix).
classify_file(file_path, enable_hashing, raises, fs) ==
    IF raises THEN ClassifyFailed(file_path)
    ELSE [path |-> file_path,
          size |-> get_file_size(file_path, fs),
          extension |-> get_file_extension(file_path),
          category |-> get_category_for_extension(get_file_extension(file_path)),
          hash |-> IF enable_hashing THEN get_file_hash(file_path, fs) ELSE NoHash,
          status |-> PENDING, destination |-> NoPath, error |-> ""]

\* The increasing index sequences of length 1..MaxFiles over the pool.
RECURSIVE Picks(_, _)
Picks(from, n) ==
    IF n = 0 THEN {<<>>}
    ELSE {<<>>} \cup { <<k>> \o rest : k \in from..Len(Pool), rest \in Picks(from + 1, n - 1) }

IsIncreasing(s) == \A i \in 1..(Len(s) - 1) : s[i] < s[i + 1]
FilePicks == { s \in Picks(1, MaxFiles) : Len(s) >= 1 /\ IsIncreasing(s) }

----------------------------------------------------------------------------
(* create_session *)

\* format_timestamp: "%Y%m%d_%H%M%S" keeps whole seconds.
format_timestamp(dt) == ToString(dt \div TicksPerSecond)

\* Path.name of a directory: its last component.
DirName(dir) == dir[Len(dir)]

SessionId(source_directories, timestamp) ==
    IF Len(source_directories) = 1
    THEN DirName(source_directories[1]) \o <<SESSION_PREFIX, format_timestamp(timestamp)>>
    ELSE <<"Multiple", "Folders", SESSION_PREFIX, format_timestamp(timestamp)>>

ArchiveBase(use_source_parent, source_directories) ==
    IF use_source_parent /\ Len(source_directories) > 0
    THEN Parent(source_directories[1])
    ELSE ARCHIVE_BASE_DIR

NewSession(use_source_parent, source_directories, dry_run, timestamp) ==
    LET session_id == SessionId(source_directories, timestamp)
        archive_base == ArchiveBase(use_source_parent, source_directories)
    IN  [session_id |-> session_id,
         timestamp |-> timestamp,
         source_directories |-> source_directories,
         archive_path |-> Append(archive_base, session_id),
         dry_run |-> dry_run]

----------------------------------------------------------------------------
(* The file system calls the mover makes.  A file system state is          *)
(* [disk, dirs]; readonly does not change.                                 *)

\* Path.exists() of a file path (no directory has the path of a file here).
Exists(path, fs) == path \in DOMAIN fs.disk

\* Path.mkdir(parents=True, exist_ok=True): the missing ancestors are made
\* first, and those made stay when a later one fails.
RECURSIVE Mkdir(_, _)
Mkdir(path, fs) ==
    IF path \in fs.dirs THEN [ok |-> TRUE, fs |-> fs]
    ELSE IF Len(path) = 0 THEN [ok |-> FALSE, fs |-> fs]
    ELSE LET up == Mkdir(Parent(path), fs)
         IN  IF ~up.ok \/ Parent(path) \in readonly
             THEN [ok |-> FALSE, fs |-> up.fs]
             ELSE [ok |-> TRUE, fs |-> [up.fs EXCEPT !.dirs = @ \cup {path}]]

\* create_directory_safe: False instead of the exception.
create_directory_safe(path, fs) == Mkdir(path, fs)

\* shutil.move(src, dst) of a regular file: dst is replaced when it exists;
\* the call raises, changing nothing, when src does not exist or the
\* directory of dst is missing or cannot be written.
MoveRaises(src, dst, fs) ==
    \/ src \notin DOMAIN fs.disk
    \/ dst.parent \notin fs.dirs
    \/ dst.parent \in readonly

shutil_move(src, dst, fs) ==
    IF MoveRaises(src, dst, fs) \/ src = dst THEN fs
    ELSE [fs EXCEPT !.disk =
            [p \in (DOMAIN fs.disk \ {src}) \cup {dst} |->
                IF p = dst THEN fs.disk[src] ELSE fs.disk[p]]]

----------------------------------------------------------------------------
(* _get_destination_path, _handle_collision, _move_file *)

CategoryDisplay(category) ==
    IF category \in DOMAIN CATEGORY_DISPLAY_NAMES
    THEN CATEGORY_DISPLAY_NAMES[category] ELSE category

\* session_path / None raises TypeError.
DestinationRaises(file_info) == file_info.category = NoCategory

get_destination_path(file_info, session_path) ==
    LET category_dir == Append(session_path, <<CategoryDisplay(file_info.category)>>)
    IN  PathOf(category_dir, file_info.path.name)

\* SuffixProbe without the probe: stem_counter, on disk or not.
SuffixProbe_unprobed(destination, counter, fs) ==
    PathOf(destination.parent,
           Name(Append(destination.name.stem, ToString(counter)), destination.name.ext))

\* The probe loop of the suffix policy: the first stem_counter that is free.
RECURSIVE SuffixProbe(_, _, _)
SuffixProbe(destination, counter, fs) ==
    LET new_name == Name(Append(destination.name.stem, ToString(counter)),
                         destination.name.ext)
        new_destination == PathOf(destination.parent, new_name)
    IN  IF ~Exists(new_destination, fs) THEN new_destination
        ELSE SuffixProbe(destination, counter + 1, fs)

\* _handle_collision that keeps the destination, whatever the policy.
handle_collision_kept(policy, file_info, destination, fs, depth) ==
    [file_info |-> file_info, destination |-> destination, raised |-> FALSE]

\* _handle_collision returns [file_info, destination, raised]: the record
\* (skip sets its status), the final destination, and whether the call
\* raised RecursionError (the interpreter's stack, depth deep, ran out).
RECURSIVE handle_collision(_, _, _, _, _)
handle_collision(policy, file_info, destination, fs, depth) ==
    IF depth > MaxRecursion
    THEN [file_info |-> file_info, destination |-> destination, raised |-> TRUE]
    ELSE CASE policy = SKIP ->
                [file_info |-> [file_info EXCEPT !.status = SKIPPED],
                 destination |-> destination, raised |-> FALSE]
           [] policy = OVERWRITE ->
                [file_info |-> file_info, destination |-> destination, raised |-> FALSE]
           [] policy = SUFFIX ->
                [file_info |-> file_info,
                 destination |-> SuffixProbe(destination, 1, fs), raised |-> FALSE]
           [] policy = HASH ->
                IF file_info.hash # NoHash
                THEN LET hash_suffix == file_info.hash[1]
                         new_name == Name(Append(destination.name.stem, hash_suffix),
                                          destination.name.ext)
                     IN  [file_info |-> file_info,
                          destination |-> PathOf(destination.parent, new_name),
                          raised |-> FALSE]
                ELSE handle_collision(policy, file_info, destination, fs, depth + 1)

\* _move_file returns [file_info, fs, raised]: raised is "" when the call
\* returned, otherwise the message of the exception that left it.

\* The move itself: shutil.move, then status Moved; or status Error and raise.
MoveTo(file_info, destination, fs) ==
    IF MoveRaises(file_info.path, destination, fs)
    THEN [file_info |-> [file_info EXCEPT !.status = ERROR, !.error = "move"],
          fs |-> fs, raised |-> "move"]
    ELSE [file_info |-> [file_info EXCEPT !.status = MOVED],
          fs |-> shutil_move(file_info.path, destination, fs), raised |-> ""]

\* The collision resolved as res: the record takes the destination, then the
\* move; or RecursionError leaves _move_file.
MoveResolved(file_info, res, fs) ==
    IF res.raised
    THEN [file_info |-> file_info, fs |-> fs, raised |-> "recursion"]
    ELSE MoveTo([res.file_info EXCEPT !.destination = res.destination],
                res.destination, fs)

\* From the collision check on, the category directory being there.
MoveChecked(policy, file_info, fs) ==
    IF Exists(file_info.destination, fs)
    THEN MoveResolved(file_info,
                      handle_collision(policy, file_info, file_info.destination, fs, 0),
                      fs)
    ELSE MoveTo(file_info, file_info.destination, fs)

\* From the making of the category directory, made, on.
MoveMade(policy, file_info, made) ==
    IF ~made.ok
    THEN [file_info |-> file_info, fs |-> made.fs, raised |-> "mkdir"]
    ELSE MoveChecked(policy, file_info, made.fs)

\* From the destination, set, on.
MovePlanned(policy, file_info, fs) ==
    MoveMade(policy, file_info,
             create_directory_safe(file_info.destination.parent, fs))

move_file(policy, file_info, session_path, fs) ==
    IF file_info.destination # NoPath
    THEN MovePlanned(policy, file_info, fs)
    ELSE IF DestinationRaises(file_info)
    THEN [file_info |-> file_info, fs |-> fs, raised |-> "destination"]
    ELSE MovePlanned(policy,
            [file_info EXCEPT
                !.destination = get_destination_path(file_info, session_path)],
            fs)

----------------------------------------------------------------------------
(* plan_archive *)

Operation(operation_type, i, file_info) ==
    [type |-> operation_type, file |-> i, source |-> file_info.path,
     destination |-> file_info.destination]

\* plan_one that enters an operation for a record it could not route, too.
plan_one_failed_counted(i, file_info, session_path, plan, fs) ==
    LET destination == get_destination_path(file_info, session_path)
        f1 == [file_info EXCEPT !.destination = destination]
        f0 == [file_info EXCEPT !.status = ERROR, !.error = "plan"]
    IN  IF DestinationRaises(file_info)
        THEN [file_info |-> f0,
              plan |-> [plan EXCEPT
                  !.warnings = Append(@, [kind |-> "error", file |-> i]),
                  !.operations = Append(@, Operation("move", i, f0))]]
        ELSE IF Exists(destination, fs)
        THEN [file_info |-> f1,
              plan |-> [plan EXCEPT
                  !.warnings = Append(@, [kind |-> "collision", file |-> i]),
                  !.operations = Append(@, Operation("move_with_collision", i, f1))]]
        ELSE [file_info |-> f1,
              plan |-> [plan EXCEPT !.operations = Append(@, Operation("move", i, f1))]]

\* plan_one that flags no collision.
plan_one_unflagged(i, file_info, session_path, plan, fs) ==
    LET destination == get_destination_path(file_info, session_path)
        f1 == [file_info EXCEPT !.destination = destination]
    IN  [file_info |-> f1,
         plan |-> [plan EXCEPT !.operations = Append(@, Operation("move", i, f1))]]

\* One pass of the loop of plan_archive over record i: the record with its
\* destination set, and the operation and the warning appended to the plan.
plan_one(i, file_info, session_path, plan, fs) ==
    LET destination == get_destination_path(file_info, session_path)
        f1 == [file_info EXCEPT !.destination = destination]
    IN  IF DestinationRaises(file_info)
        THEN [file_info |-> [file_info EXCEPT !.status = ERROR, !.error = "plan"],
              plan |-> [plan EXCEPT
                  !.warnings = Append(@, [kind |-> "error", file |-> i])]]
        ELSE IF Exists(destination, fs)
        THEN [file_info |-> f1,
              plan |-> [plan EXCEPT
                  !.warnings = Append(@, [kind |-> "collision", file |-> i]),
                  !.operations = Append(@, Operation("move_with_collision", i, f1))]]
        ELSE [file_info |-> f1,
              plan |-> [plan EXCEPT !.operations = Append(@, Operation("move", i, f1))]]

RECURSIVE PlanLoop(_, _, _, _, _)
PlanLoop(i, fl, session_path, plan, fs) ==
    IF i > Len(fl) THEN [files |-> fl, plan |-> plan]
    ELSE LET r == plan_one(i, fl[i], session_path, plan, fs)
         IN  PlanLoop(i + 1, [fl EXCEPT ![i] = r.file_info], session_path, r.plan, fs)

plan_archive(s, session, fl, fs) ==
    PlanLoop(1, fl, session.archive_path,
             [session |-> s, operations |-> <<>>, warnings |-> <<>>], fs)

----------------------------------------------------------------------------
(* execute_archive *)

\* No except clause: the exception of _move_file leaves the loop, the record
\* as _move_file left it.
Caught_none(r) ==
    [file_info |-> r.file_info, fs |-> r.fs, escaped |-> r.raised # ""]

\* The except clause of the loop: the exception r.raised of _move_file sets
\* the status and the message, and does not leave the loop.
Caught(r) ==
    IF r.raised = ""
    THEN [file_info |-> r.file_info, fs |-> r.fs, escaped |-> FALSE]
    ELSE [file_info |-> [r.file_info EXCEPT !.status = ERROR, !.error = r.raised],
          fs |-> r.fs, escaped |-> FALSE]

\* execute_one that does not pass over an Error record.
execute_one_unguarded(policy, file_info, session_path, fs) ==
    Caught(move_file(policy, file_info, session_path, fs))

\* One pass of the loop of execute_archive: [file_info, fs, escaped], escaped
\* when an exception leaves the loop.
execute_one(policy, file_info, session_path, fs) ==
    IF file_info.status = ERROR
    THEN [file_info |-> file_info, fs |-> fs, escaped |-> FALSE]
    ELSE Caught(move_file(policy, file_info, session_path, fs))

RECURSIVE ExecuteLoop(_, _, _, _, _)
RECURSIVE ExecuteRest(_, _, _, _, _)
ExecuteLoop(i, policy, fl, session_path, fs) ==
    IF i > Len(fl) THEN [files |-> fl, fs |-> fs, raised |-> FALSE]
    ELSE ExecuteRest(i, policy, fl, session_path,
                     execute_one(policy, fl[i], session_path, fs))

\* After the pass r over record i: on to record i + 1, or out by the exception.
ExecuteRest(i, policy, fl, session_path, r) ==
    IF r.escaped
    THEN [files |-> [fl EXCEPT ![i] = r.file_info], fs |-> r.fs, raised |-> TRUE]
    ELSE ExecuteLoop(i + 1, policy, [fl EXCEPT ![i] = r.file_info], session_path, r.fs)

\* execute_archive returns [files, fs, raised, entered]: entered when the
\* loop over the records was reached.
Entered(r) == [files |-> r.files, fs |-> r.fs, raised |-> r.raised, entered |-> TRUE]

\* ExecuteMade that goes on to the records when the root was not made.
ExecuteMade_unchecked(policy, session, fl, made) ==
    Entered(ExecuteLoop(1, policy, fl, session.archive_path, made.fs))

\* From the making of the root, made, on.
ExecuteMade(policy, session, fl, made) ==
    IF ~made.ok
    THEN [files |-> fl, fs |-> made.fs, raised |-> FALSE, entered |-> FALSE]
    ELSE Entered(ExecuteLoop(1, policy, fl, session.archive_path, made.fs))

\* execute_archive without the dry-run guard.
execute_archive_dry_unchecked(policy, session, fl, fs) ==
    ExecuteMade(policy, session, fl, create_directory_safe(session.archive_path, fs))

execute_archive(policy, session, fl, fs) ==
    IF session.dry_run
    THEN [files |-> fl, fs |-> fs, raised |-> FALSE, entered |-> FALSE]
    ELSE ExecuteMade(policy, session, fl,
                     create_directory_safe(session.archive_path, fs))

----------------------------------------------------------------------------
(* rollback_session *)

success_count(fl) == Cardinality({i \in 1..Len(fl) : fl[i].status = MOVED})

\* rollback_one that moves no file back.
rollback_one_unmoved(file_info, fs) ==
    [file_info |-> file_info, fs |-> fs, attempted |-> FALSE, moved |-> FALSE]

\* One pass of the loop of rollback_session: [file_info, fs, attempted, moved].
rollback_one(file_info, fs) ==
    IF file_info.status # MOVED \/ file_info.destination = NoPath
    THEN [file_info |-> file_info, fs |-> fs, attempted |-> FALSE, moved |-> FALSE]
    ELSE [file_info |-> file_info,
          fs |-> shutil_move(file_info.destination, file_info.path, fs),
          attempted |-> TRUE,
          moved |-> ~MoveRaises(file_info.destination, file_info.path, fs)]

RECURSIVE RollbackLoop(_, _, _, _, _)
RollbackLoop(i, fl, fs, attempts, count) ==
    IF i > Len(fl) THEN [files |-> fl, fs |-> fs, attempts |-> attempts, count |-> count]
    ELSE LET r == rollback_one(fl[i], fs)
         IN  RollbackLoop(i + 1, [fl EXCEPT ![i] = r.file_info], r.fs,
                          attempts + (IF r.attempted THEN 1 ELSE 0),
                          count + (IF r.moved THEN 1 ELSE 0))

\* rollback_session that counts nothing and returns True.
rollback_session_uncounted(session, fl, fs) ==
    IF session.dry_run
    THEN [files |-> fl, fs |-> fs, attempts |-> 0, ret |-> FALSE]
    ELSE LET r == RollbackLoop(1, fl, fs, 0, 0)
         IN  [files |-> r.files, fs |-> r.fs, attempts |-> r.attempts, ret |-> TRUE]

\* rollback_session returns [files, fs, attempts, ret].
rollback_session(session, fl, fs) ==
    IF session.dry_run
    THEN [files |-> fl, fs |-> fs, attempts |-> 0, ret |-> FALSE]
    ELSE LET r == RollbackLoop(1, fl, fs, 0, 0)
         IN  [files |-> r.files, fs |-> r.fs, attempts |-> r.attempts,
              ret |-> (r.count = success_count(r.files))]

----------------------------------------------------------------------------
(* Initial states: a mover, the classified files of the selected           *)
(* directories, and the files an archive root already holds.               *)

SelectedDirs(fl) ==
    IF \E i \in 1..Len(fl) : fl[i].path.parent = DirB THEN <<DirA, DirB>> ELSE <<DirA>>

\* The archive root of a session created in second 0, and the names that may
\* already be there: x.txt and x_1.txt .. x_MaxSuffix.txt.
Root0(use_source_parent, fl) ==
    NewSession(use_source_parent, SelectedDirs(fl), TRUE, 0).archive_path
Documents0(use_source_parent, fl) ==
    Append(Root0(use_source_parent, fl), <<CategoryDisplay("documents")>>)
PreNames == {NameX} \cup { Name(<<"x", ToString(n)>>, Txt) : n \in 1..MaxSuffix }

\* All the ancestors of a directory, itself included.
Ancestors(dir) == { SubSeq(dir, 1, n) : n \in 1..Len(dir) }

SourceDisk(pick) ==
    [p \in { Pool[pick[i]].path : i \in 1..Len(pick) } |->
        LET k == CHOOSE k \in 1..Len(Pool) : Pool[k].path = p
        IN  [ino |-> k, data |-> Pool[k].data]]

InitDisk(pick, docs, pre) ==
    LET src == SourceDisk(pick)
    IN  [p \in DOMAIN src \cup { PathOf(docs, n) : n \in pre } |->
            IF p \in DOMAIN src THEN src[p] ELSE [ino |-> 0, data |-> "old"]]

InitDirs(pick, docs, pre) ==
    UNION { Ancestors(Pool[pick[i]].path.parent) : i \in 1..Len(pick) }
        \cup Ancestors(ARCHIVE_BASE_DIR)
        \cup (IF pre = {} THEN {} ELSE Ancestors(docs))

\* Only the hash policy reads a record's hash: the classifier's hashing is
\* switched off under that policy alone.
HashingChoices(policy) == IF policy = HASH THEN BOOLEAN ELSE {TRUE}

NoCall == [op |-> "none", session |-> 0, ret |-> TRUE, attempts |-> 0, raised |-> FALSE]

\* Every file and directory can be read; no call of a service yet.
NoDenied == [files |-> {}, dirs |-> {}]
NoResult == [op |-> "none", args |-> <<>>, raised |-> FALSE, value |-> <<>>]

\* No execute_archive is running step by step.
Idle == [at |-> "idle", session |-> 0, i |-> 0, n |-> 0]

\* DirectoryScanner() with the defaults IGNORE_HIDDEN_FILES, RECURSIVE_SCAN.
DefaultScanner == [ignore_hidden |-> TRUE, recursive |-> FALSE]

\* The records the classifier made of the picked files.
Classified(pick, enable_hashing) ==
    [i \in 1..Len(pick) |->
        classify_file(Pool[pick[i]].path, enable_hashing, Pool[pick[i]].failed,
                      [disk |-> SourceDisk(pick), denied |-> NoDenied])]

\* The mover, the classified files and the file system before any session.
Start(policy, enable_hashing, pick, pre, ro) ==
    LET fl == Classified(pick, enable_hashing)
        docs == Documents0(FALSE, fl)
    IN  /\ mover = [collision_policy |-> policy, use_source_parent |-> FALSE]
        /\ files = fl
        /\ disk = InitDisk(pick, docs, pre)
        /\ dirs = InitDirs(pick, docs, pre)
        /\ readonly = ro \cap InitDirs(pick, docs, pre)
        /\ classifier = [enable_hashing |-> enable_hashing]
        /\ scanner = DefaultScanner
        /\ denied = NoDenied
        /\ result = NoResult
        /\ pc = Idle

\* At most one directory is read-only: the archive base or the old root.
ReadonlyChoices(pick) ==
    LET fl == Classified(pick, TRUE)
    IN  {{}, {ARCHIVE_BASE_DIR}, {Root0(FALSE, fl)}}

\* One session, created by create_session at some time of the clock.
Init ==
    \E policy \in CollisionPolicy, pick \in FilePicks, pre \in SUBSET PreNames :
    \E enable_hashing \in HashingChoices(policy), ro \in ReadonlyChoices(pick) :
    \E dry_run \in BOOLEAN, timestamp \in 1..MaxClock :
        /\ Start(policy, enable_hashing, pick, pre, ro)
        /\ clock = timestamp
        /\ sessions = <<NewSession(FALSE, SelectedDirs(files), dry_run, timestamp)>>
        /\ plans = <<NoPlan>>
        /\ last = [NoCall EXCEPT !.op = "create_session", !.session = 1]

----------------------------------------------------------------------------
(* Actions *)

FS == [disk |-> disk, dirs |-> dirs]

\* What the mover never touches.
services == <<classifier, scanner, denied, result, pc>>

\* create_session at time timestamp = datetime.now(), later than every
\* earlier reading of the clock.
CreateSession(dry_run, timestamp) ==
    /\ Len(sessions) < MaxSessions
    /\ timestamp > clock
    /\ clock' = timestamp
    /\ sessions' = Append(sessions,
            NewSession(mover.use_source_parent, SelectedDirs(files), dry_run, timestamp))
    /\ plans' = Append(plans, NoPlan)
    /\ last' = [NoCall EXCEPT !.op = "create_session", !.session = Len(sessions) + 1]
    /\ UNCHANGED <<mover, files, disk, dirs, readonly, services>>

PlanArchive(s) ==
    \E r \in {plan_archive(s, sessions[s], files, FS)} :
        /\ files' = r.files
        /\ plans' = [plans EXCEPT ![s] = r.plan]
        /\ last' = [NoCall EXCEPT !.op = "plan_archive", !.session = s]
        /\ UNCHANGED <<clock, mover, sessions, disk, dirs, readonly, services>>

ExecuteArchive(s) ==
    \E r \in {execute_archive(mover.collision_policy, sessions[s], files, FS)} :
        /\ files' = r.files
        /\ disk' = r.fs.disk
        /\ dirs' = r.fs.dirs
        /\ last' = [NoCall EXCEPT !.op = "execute_archive", !.session = s,
                                  !.ret = r.entered, !.raised = r.raised]
        /\ UNCHANGED <<clock, mover, sessions, plans, readonly, services>>

RollbackSession(s) ==
    \E r \in {rollback_session(sessions[s], files, FS)} :
        /\ files' = r.files
        /\ disk' = r.fs.disk
        /\ dirs' = r.fs.dirs
        /\ last' = [NoCall EXCEPT !.op = "rollback_session", !.session = s,
                                  !.ret = r.ret, !.attempts = r.attempts]
        /\ UNCHANGED <<clock, mover, sessions, plans, readonly, services>>

Next ==
    \/ \E s \in 1..Len(sessions) : PlanArchive(s)
    \/ \E s \in 1..Len(sessions) : ExecuteArchive(s)
    \/ \E s \in 1..Len(sessions) : RollbackSession(s)

Spec == Init /\ [][Next]_vars

----------------------------------------------------------------------------
(* Two sessions over the same records, as the command line makes them: the  *)
(* mover starts with no session, and create_session is one of its calls.    *)

InitTwo ==
    \E policy \in CollisionPolicy, pick \in FilePicks :
        /\ Start(policy, TRUE, pick, {}, {})
        /\ clock = 0
        /\ sessions = <<>>
        /\ plans = <<>>
        /\ last = NoCall

NextTwo ==
    \/ \E dry_run \in BOOLEAN, timestamp \in 1..MaxClock : CreateSession(dry_run, timestamp)
    \/ Next

SpecTwo == InitTwo /\ [][NextTwo]_vars

----------------------------------------------------------------------------
(* One session over records some of which a caller made itself, with no    *)
(* category: FileInfo(path, size, extension, category=None).               *)

Uncategorised(fl, direct) ==
    [i \in DOMAIN fl |->
        IF i \in direct THEN [fl[i] EXCEPT !.category = NoCategory] ELSE fl[i]]

InitPlan ==
    \E policy \in CollisionPolicy, pick \in FilePicks, pre \in SUBSET PreNames :
    \E direct \in SUBSET DOMAIN pick, dry_run \in BOOLEAN :
        /\ mover = [collision_policy |-> policy, use_source_parent |-> FALSE]
        /\ files = Uncategorised(Classified(pick, TRUE), direct)
        /\ disk = InitDisk(pick, Documents0(FALSE, files), pre)
        /\ dirs = InitDirs(pick, Documents0(FALSE, files), pre)
        /\ readonly = {}
        /\ classifier = [enable_hashing |-> TRUE]
        /\ scanner = DefaultScanner
        /\ denied = NoDenied
        /\ result = NoResult
        /\ pc = Idle
        /\ clock = 1
        /\ sessions = <<NewSession(FALSE, SelectedDirs(files), dry_run, 1)>>
        /\ plans = <<NoPlan>>
        /\ last = [NoCall EXCEPT !.op = "create_session", !.session = 1]

NextPlan == Next

SpecPlan == InitPlan /\ [][NextPlan]_vars

----------------------------------------------------------------------------
(* One live session over one record more than MaxFiles, so that a record   *)
(* can fail between two that do not.                                       *)

MorePicks ==
    { s \in Picks(1, MaxFiles + 1) : Len(s) = MaxFiles + 1 /\ IsIncreasing(s) }

InitMore ==
    \E policy \in CollisionPolicy, pick \in MorePicks, pre \in SUBSET PreNames :
        /\ Start(policy, TRUE, pick, pre, {})
        /\ clock = 1
        /\ sessions = <<NewSession(FALSE, SelectedDirs(files), FALSE, 1)>>
        /\ plans = <<NoPlan>>
        /\ last = [NoCall EXCEPT !.op = "create_session", !.session = 1]

NextMore == Next

SpecMore == InitMore /\ [][NextMore]_vars

----------------------------------------------------------------------------
(* The directories the scanner and the classifier are run on, and          *)
(* Path.glob over them.                                                    *)

DirS == Home \o << <<"S">> >>
DirSGit == DirS \o << <<".git">> >>
DirSSub == DirS \o << <<"sub">> >>
DirM == Home \o << <<"M">> >>              \* the crowded directory
DirGone == Home \o << <<"gone">> >>        \* never there
DirNoExt == DirS \o << <<"noext">> >>      \* the path of the file noext
DirVenv == Home \o << <<"venv">>, <<"P">> >>    \* a project in a virtual environment

\* Some of IGNORE_SYSTEM_DIRS, as directory names.
IGNORE_SYSTEM_DIRS == { <<".git">>, <<"node", "modules">>, <<"venv">>, <<"Library">> }

\* The files of S that the services meet, by a short name each.
TreeFile ==
    [a      |-> PathOf(DirS, Name(<<"a">>, Pdf)),
     b      |-> PathOf(DirS, Name(<<"b">>, <<".", "J", "P", "G">>)),
     c      |-> PathOf(DirS, Name(<<"c">>, Py)),
     hidden |-> PathOf(DirS, Name(<<".hidden">>, Txt)),
     noext  |-> PathOf(DirS, Name(<<"noext">>, <<>>)),
     git    |-> PathOf(DirSGit, Name(<<"cfg">>, Txt)),
     sub    |-> PathOf(DirSSub, Name(<<"e">>, Pdf)),
     venv   |-> PathOf(DirVenv, Name(<<"v">>, Py)),
     gone   |-> PathOf(DirS, Name(<<"gone">>, Pdf))]       \* never there

\* The files of M.
FileM(i) ==
    PathOf(DirM, Name(<<"f", ToString(i)>>,
                      CASE i % 4 = 0 -> Pdf [] i % 4 = 1 -> Txt
                        [] i % 4 = 2 -> Jpg [] OTHER -> Py))

\* The files that may be there and their contents: a, c, noext and e are
\* copies of one file, b and .hidden of another.
OptionalFiles == {TreeFile.a, TreeFile.b, TreeFile.hidden, TreeFile.noext}
Content(file_path) ==
    CASE file_path \in {TreeFile.a, TreeFile.c, TreeFile.noext, TreeFile.sub} -> "d1"
      [] file_path \in {TreeFile.b, TreeFile.hidden} -> "d2"
      [] file_path = TreeFile.git -> "d3"
      [] OTHER -> "d5"

\* An entry that glob yields: a directory or a file.
DirItem(dir) == [is_dir |-> TRUE, dir |-> dir, file |-> NoPath]
FileItem(file_path) == [is_dir |-> FALSE, dir |-> file_path.parent, file |-> file_path]

\* The order in which the file system lists the entries.
Listing ==
    <<FileItem(TreeFile.a), FileItem(TreeFile.b), FileItem(TreeFile.c), FileItem(TreeFile.hidden),
      FileItem(TreeFile.noext), DirItem(DirSGit), FileItem(TreeFile.git),
      DirItem(DirSSub), FileItem(TreeFile.sub), FileItem(TreeFile.venv)>>
        \o [i \in 1..ManyFiles |-> FileItem(FileM(i))]

\* dir is directory or below it.
IsBelow(dir, directory) ==
    Len(dir) >= Len(directory) /\ SubSeq(dir, 1, Len(directory)) = directory

\* directory.glob("**/*") or directory.glob("*"): the entries below an
\* existing directory that may be listed, or its children alone.
glob(directory, recursive, fs) ==
    IF directory \notin fs.dirs \/ directory \in fs.denied.dirs THEN <<>>
    ELSE SelectSeq(Listing,
            LAMBDA item :
                /\ IF item.is_dir THEN item.dir \in fs.dirs
                                  ELSE item.file \in DOMAIN fs.disk
                /\ LET up == IF item.is_dir THEN Parent(item.dir) ELSE item.dir
                   IN  IF recursive THEN IsBelow(up, directory) ELSE up = directory)

----------------------------------------------------------------------------
(* The scanner's score.  A score is a whole number of hundredths: what     *)
(* round(score, 2) keeps.                                                  *)

\* round(100 * math.log10(m)) for the m = total_files + 1 that occur.
Log10Centi(m) ==
    CASE m = 1 -> 0     [] m = 2 -> 30    [] m = 3 -> 48    [] m = 4 -> 60
      [] m = 5 -> 70    [] m = 6 -> 78    [] m = 7 -> 85    [] m = 8 -> 90
      [] m = 9 -> 95    [] m = 10 -> 100  [] m = 11 -> 104  [] m = 12 -> 108
      [] m = 13 -> 111  [] m = 14 -> 115  [] m = 15 -> 118  [] m = 16 -> 120
      [] m = 17 -> 123  [] m = 18 -> 126  [] m = 100 -> 200 [] m = 1000 -> 300
      [] m = 1001 -> 300 [] m = 10000 -> 400

Min(a, b) == IF a <= b THEN a ELSE b

\* 300 * min(1.0, math.log10(total_files + 1) / 3.0)
NormalizedCount(total_files) == Min(300, Log10Centi(total_files + 1))

\* 10 * min(1.0, file_types / 10.0)
NormalizedDiversity(file_types) == Min(10, file_types)

\* _calculate_score without the guard on total_files = 0.
calculate_score_unguarded(total_files, file_types) ==
    DIVERSITY_WEIGHT * NormalizedDiversity(file_types) * 10
        + (COUNT_WEIGHT * NormalizedCount(total_files)) \div 3

\* _calculate_score, in hundredths.
calculate_score(total_files, file_types) ==
    IF total_files = 0 THEN 0
    ELSE DIVERSITY_WEIGHT * NormalizedDiversity(file_types) * 10
            + (COUNT_WEIGHT * NormalizedCount(total_files)) \div 3

----------------------------------------------------------------------------
(* The scanner: validate_directory, scan_directory, get_recommendations.   *)

\* The names that start with ".".
DotNames == {".hidden", ".git"}

\* is_hidden_file of a file: path.name.startswith(".").
is_hidden_file(path) == path.name.stem[1] \in DotNames

\* is_system_directory: path.name in system_dirs.
is_system_directory(dir, system_dirs) == DirName(dir) \in system_dirs

\* _is_in_system_directory: some directory above the file, up to the root,
\* is a system directory.
is_in_system_directory(file_path) ==
    \E parent \in Ancestors(file_path.parent) :
        is_system_directory(parent, IGNORE_SYSTEM_DIRS)

\* A file without extension is at the path.
IsFileAt(path, fs) ==
    \E f \in DOMAIN fs.disk : f.name.ext = <<>> /\ f.parent \o <<f.name.stem>> = path

\* validate_directory: is_valid of the pair it returns.  Every path here is
\* absolute.
validate_directory(path, fs) ==
    /\ path \in fs.dirs \/ IsFileAt(path, fs)        \* path.exists()
    /\ path \in fs.dirs                              \* path.is_dir()
    /\ path \notin fs.denied.dirs                    \* list(path.iterdir())

\* The fields the dataclass DirectoryScore declares.
DirectoryScoreFields ==
    {"path", "total_files", "file_types", "total_size", "score", "extensions"}

\* DirectoryScore(**kwargs): the generated __init__ raises TypeError on a
\* keyword that is no field; extensions is an empty set unless given.
DirectoryScore(kwargs) ==
    IF DOMAIN kwargs \subseteq DirectoryScoreFields
    THEN [raised |-> FALSE,
          value |-> [path |-> kwargs.path, total_files |-> kwargs.total_files,
                     file_types |-> kwargs.file_types,
                     total_size |-> kwargs.total_size, score |-> kwargs.score,
                     extensions |-> IF "extensions" \in DOMAIN kwargs
                                    THEN kwargs.extensions ELSE {}]]
    ELSE [raised |-> TRUE, value |-> <<>>]

\* recursive if recursive is not None else self.recursive; the argument is
\* "None", "True" or "False".
ScanRecursive(recursive, sc) ==
    IF recursive = "None" THEN sc.recursive ELSE recursive = "True"

\* The loop of scan_directory passes over an entry: a directory, a hidden
\* file when hidden files are ignored, a file below a system directory in a
\* recursive scan.
ScanSkips(item, scan_recursive, sc) ==
    \/ item.is_dir
    \/ sc.ignore_hidden /\ is_hidden_file(item.file)
    \/ scan_recursive /\ is_in_system_directory(item.file)

\* The loop of scan_directory from entry i on.
RECURSIVE ScanLoop(_, _, _, _, _, _)
ScanLoop(items, i, scan_recursive, sc, fs, acc) ==
    IF i > Len(items) THEN acc
    ELSE IF ScanSkips(items[i], scan_recursive, sc)
    THEN ScanLoop(items, i + 1, scan_recursive, sc, fs, acc)
    ELSE LET ext == get_file_extension(items[i].file)
         IN  ScanLoop(items, i + 1, scan_recursive, sc, fs,
                [total_files |-> acc.total_files + 1,
                 total_size |-> acc.total_size + get_file_size(items[i].file, fs),
                 extensions |-> IF ext # <<>> THEN acc.extensions \cup {ext}
                                ELSE acc.extensions])

\* What the loop of scan_directory counted.
ScanCounts(directory, scan_recursive, sc, fs) ==
    ScanLoop(glob(directory, scan_recursive, fs), 1, scan_recursive, sc, fs,
             [total_files |-> 0, total_size |-> 0, extensions |-> {}])

\* scan_directory: [raised, value].
scan_directory(directory, recursive, sc, fs) ==
    LET scan_recursive == ScanRecursive(recursive, sc)
    IN  IF ~validate_directory(directory, fs)
        THEN DirectoryScore([path |-> directory, total_files |-> 0, file_types |-> 0,
                             total_size |-> 0, score |-> 0,
                             recursive |-> scan_recursive])
        ELSE LET c == ScanCounts(directory, scan_recursive, sc, fs)
             IN  DirectoryScore(
                    [path |-> directory, total_files |-> c.total_files,
                     file_types |-> Cardinality(c.extensions),
                     total_size |-> c.total_size,
                     score |-> calculate_score(c.total_files, Cardinality(c.extensions)),
                     extensions |-> c.extensions,
                     recursive |-> scan_recursive])

\* scan_multiple_directories from directory i on: [raised, value], the first
\* scan that raises ends the call.
RECURSIVE scan_multiple_directories(_, _, _, _, _)
scan_multiple_directories(directories, i, sc, fs, scores) ==
    IF i > Len(directories) THEN [raised |-> FALSE, value |-> scores]
    ELSE LET score == scan_directory(directories[i], "None", sc, fs)
         IN  IF score.raised THEN [raised |-> TRUE, value |-> <<>>]
             ELSE scan_multiple_directories(directories, i + 1, sc, fs,
                                            Append(scores, score.value))

\* sorted(scores, key=score, reverse=True): descending, scores of equal key
\* in the order they had.
RECURSIVE SortedByScore(_)
SortedByScore(scores) ==
    IF scores = <<>> THEN <<>>
    ELSE LET n == Len(scores)
             front == SortedByScore(SubSeq(scores, 1, n - 1))
             keep == Cardinality({ k \in 1..(n - 1) : front[k].score >= scores[n].score })
         IN  SubSeq(front, 1, keep) \o <<scores[n]>> \o SubSeq(front, keep + 1, n - 1)

\* get_recommendations: [raised, value]; top_n is not negative here.
get_recommendations(directories, top_n, sc, fs) ==
    LET scanned == scan_multiple_directories(directories, 1, sc, fs, <<>>)
    IN  IF scanned.raised THEN scanned
        ELSE LET filtered_scores ==
                    SelectSeq(scanned.value,
                        LAMBDA x : x.total_files >= MIN_FILES_FOR_RECOMMENDATION)
                 sorted_scores == SortedByScore(filtered_scores)
             IN  [raised |-> FALSE,
                  value |-> SubSeq(sorted_scores, 1, Min(top_n, Len(sorted_scores)))]

----------------------------------------------------------------------------
(* The classifier: classify_directory, find_duplicates.                    *)

\* classify_directory: the records of the files glob yields, in its order.
classify_directory(directory, recursive, cl, fs) ==
    LET items == SelectSeq(glob(directory, recursive, fs), LAMBDA item : ~item.is_dir)
    IN  [k \in 1..Len(items) |->
            classify_file(items[k].file, cl.enable_hashing, FALSE, fs)]

\* The keys of hash_map in the order they were inserted, after the first i
\* records.
RECURSIVE HashKeys(_, _)
HashKeys(fl, i) ==
    IF i = 0 THEN <<>>
    ELSE LET keys == HashKeys(fl, i - 1)
         IN  IF fl[i].hash = NoHash \/ \E k \in 1..Len(keys) : keys[k] = fl[i].hash
             THEN keys ELSE Append(keys, fl[i].hash)

\* hash_map[file_hash]: the records of that hash, as indices of the list.
FileGroup(fl, file_hash) ==
    SelectSeq([i \in 1..Len(fl) |-> i], LAMBDA i : fl[i].hash = file_hash)

\* The pairs (file_group[i], file_group[j]), i < j, from (i, j) on.
RECURSIVE PairsFrom(_, _, _)
PairsFrom(file_group, i, j) ==
    IF i >= Len(file_group) THEN <<>>
    ELSE IF j > Len(file_group) THEN PairsFrom(file_group, i + 1, i + 2)
    ELSE << <<file_group[i], file_group[j]>> >> \o PairsFrom(file_group, i, j + 1)

GroupPairs_adjacent(file_group) ==
    [k \in 1..(Len(file_group) - 1) |-> <<file_group[k], file_group[k + 1]>>]

\* The pairs one group adds to duplicates.
GroupPairs(file_group) ==
    IF Len(file_group) > 1 THEN PairsFrom(file_group, 1, 2) ELSE <<>>

\* The pairs of the groups from key k on.
RECURSIVE PairsOfGroups(_, _, _)
PairsOfGroups(fl, keys, k) ==
    IF k > Len(keys) THEN <<>>
    ELSE GroupPairs(FileGroup(fl, keys[k])) \o PairsOfGroups(fl, keys, k + 1)

\* find_duplicates: the list of pairs, each a pair of indices of fl.
find_duplicates(fl, cl) ==
    IF ~cl.enable_hashing THEN <<>>
    ELSE PairsOfGroups(fl, HashKeys(fl, Len(fl)), 1)

----------------------------------------------------------------------------
(* The services called on their own start with no mover at work.           *)

NoMover ==
    /\ clock = 0
    /\ mover = [collision_policy |-> SUFFIX, use_source_parent |-> FALSE]
    /\ sessions = <<>>
    /\ files = <<>>
    /\ plans = <<>>
    /\ readonly = {}
    /\ last = NoCall
    /\ pc = Idle

Call(op, args, raised, value) ==
    [op |-> op, args |-> args, raised |-> raised, value |-> value]

----------------------------------------------------------------------------
(* The classification table on its own: get_category_for_extension called  *)
(* once with any string of up to MaxExtLen characters.                     *)

ExtChars == {".", "d", "f", "h", "p", "s", "D", "F", "P", "S"}
ExtStrings == UNION { [1..n -> ExtChars] : n \in 0..MaxExtLen }

\* The arguments of a call about to be made.
Input(args) == Call("input", args, FALSE, <<>>)

InitTable ==
    \E ext \in ExtStrings :
        /\ NoMover
        /\ disk = <<>>
        /\ dirs = {}
        /\ classifier = [enable_hashing |-> TRUE]
        /\ scanner = DefaultScanner
        /\ denied = NoDenied
        /\ result = Input(<<ext>>)

GetCategoryForExtension ==
    /\ result.op = "input"
    /\ result' = Call("get_category_for_extension", result.args, FALSE,
                      get_category_for_extension(result.args[1]))
    /\ UNCHANGED <<clock, mover, sessions, files, plans, disk, dirs, readonly, last,
                   classifier, scanner, denied, pc>>

NextTable == GetCategoryForExtension

SpecTable == InitTable /\ [][NextTable]_vars

----------------------------------------------------------------------------
(* The score on its own: _calculate_score called once with any counts.     *)

FileCounts == (0..MaxCount) \cup {99, 999, 1000, 9999}
TypeCounts == 0..MaxTypes

InitScore ==
    \E total_files \in FileCounts, file_types \in TypeCounts :
        /\ NoMover
        /\ disk = <<>>
        /\ dirs = {}
        /\ classifier = [enable_hashing |-> TRUE]
        /\ scanner = DefaultScanner
        /\ denied = NoDenied
        /\ result = Input(<<total_files, file_types>>)

CalculateScore ==
    /\ result.op = "input"
    /\ result' = Call("calculate_score", result.args, FALSE,
                      calculate_score(result.args[1], result.args[2]))
    /\ UNCHANGED <<clock, mover, sessions, files, plans, disk, dirs, readonly, last,
                   classifier, scanner, denied, pc>>

NextScore == CalculateScore

SpecScore == InitScore /\ [][NextScore]_vars

----------------------------------------------------------------------------
(* The scanner and the classifier on their own, over a home directory that *)
(* holds S (c.py, .git/cfg.txt, sub/e.pdf and some of four more files), M  *)
(* (ManyFiles files) and venv/P (v.py).                                    *)

TreeDisk(present) ==
    [p \in present \cup {TreeFile.c, TreeFile.git, TreeFile.sub, TreeFile.venv}
                    \cup { FileM(i) : i \in 1..ManyFiles } |->
        [ino |-> CHOOSE k \in 1..Len(Listing) : Listing[k] = FileItem(p),
         data |-> Content(p)]]

TreeDirs == UNION { Ancestors(d) : d \in {DirSGit, DirSSub, DirM, DirVenv} }

\* What may not be read: nothing, the file a.pdf, or the directory S.
DeniedChoices ==
    {NoDenied, [files |-> {TreeFile.a}, dirs |-> {}], [files |-> {}, dirs |-> {DirS}]}

InitServices ==
    \E present \in SUBSET OptionalFiles, enable_hashing \in BOOLEAN,
       ignore_hidden \in BOOLEAN, den \in DeniedChoices :
        /\ NoMover
        /\ disk = TreeDisk(present)
        /\ dirs = TreeDirs
        /\ classifier = [enable_hashing |-> enable_hashing]
        /\ scanner = [ignore_hidden |-> ignore_hidden, recursive |-> FALSE]
        /\ denied = den
        /\ result = NoResult

\* What the services read.
ReadFS == [disk |-> disk, dirs |-> dirs, denied |-> denied]

moving == <<clock, mover, sessions, plans, disk, dirs, readonly, last, pc>>

ClassifyFile(file_path, raises) ==
    /\ result' = Call("classify_file", <<file_path, raises>>, FALSE,
                      classify_file(file_path, classifier.enable_hashing, raises, ReadFS))
    /\ UNCHANGED <<moving, files, classifier, scanner, denied>>

ClassifyDirectory(directory, recursive) ==
    /\ files' = classify_directory(directory, recursive, classifier, ReadFS)
    /\ result' = Call("classify_directory", <<directory, recursive>>, FALSE, files')
    /\ UNCHANGED <<moving, classifier, scanner, denied>>

\* find_duplicates(files) on the list classify_directory returned.
FindDuplicates ==
    /\ result' = Call("find_duplicates", <<>>, FALSE, find_duplicates(files, classifier))
    /\ UNCHANGED <<moving, files, classifier, scanner, denied>>

ScanDirectory(directory, recursive) ==
    /\ \E r \in {scan_directory(directory, recursive, scanner, ReadFS)} :
            result' = Call("scan_directory", <<directory, recursive>>, r.raised, r.value)
    /\ UNCHANGED <<moving, files, classifier, scanner, denied>>

GetRecommendations(directories, top_n) ==
    /\ \E r \in {get_recommendations(directories, top_n, scanner, ReadFS)} :
            result' = Call("get_recommendations", <<directories, top_n>>,
                           r.raised, r.value)
    /\ UNCHANGED <<moving, files, classifier, scanner, denied>>

\* The lists of directories get_recommendations is called with.
RecommendedDirs == {<<>>, <<DirS>>, <<DirM>>, <<DirS, DirM>>, <<DirGone, DirM>>}

NextServices ==
    \/ \E file_path \in OptionalFiles \cup {TreeFile.gone}, raises \in BOOLEAN :
            ClassifyFile(file_path, raises)
    \/ \E directory \in {DirS, DirM, DirGone}, recursive \in BOOLEAN :
            ClassifyDirectory(directory, recursive)
    \/ FindDuplicates
    \/ \E directory \in {DirS, DirM, DirVenv, DirGone, DirNoExt}, recursive \in {"None", "True", "False"} :
            ScanDirectory(directory, recursive)
    \/ \E directories \in RecommendedDirs, top_n \in 0..MaxTopN :
            GetRecommendations(directories, top_n)

SpecServices == InitServices /\ [][NextServices]_vars

----------------------------------------------------------------------------
(* The reporter's _group_duplicates.  A group is a list object: [id, members], *)
(* members the indices of its records in the list of records; file_to_group *)
(* is keyed by FileInfo, which hashes and compares by path.                 *)

\* file.name as sort key: the rank of the name among the names here.
NameRank(path) ==
    CASE path = TreeFile.a -> 1 [] path = TreeFile.b -> 2 [] path = TreeFile.c -> 3
      [] OTHER -> 4

\* find_group: the id of the group of a file, 0 for None.
find_group(file_to_group, file) ==
    IF file.path \in DOMAIN file_to_group THEN file_to_group[file.path] ELSE 0

\* file_to_group[file] = group for every file of members.
Assign(file_to_group, fl, members, id) ==
    [q \in DOMAIN file_to_group \cup { fl[members[k]].path : k \in DOMAIN members } |->
        IF \E k \in DOMAIN members : fl[members[k]].path = q THEN id
        ELSE file_to_group[q]]

\* The members of the group object id.
MembersOf(groups, id) ==
    groups[CHOOSE k \in DOMAIN groups : groups[k].id = id].members

\* group.append or group.extend on the group object id.
Extend(groups, id, more) ==
    [k \in DOMAIN groups |->
        IF groups[k].id = id THEN [groups[k] EXCEPT !.members = @ \o more]
        ELSE groups[k]]

\* groups.remove(group): the first list that equals group, one list equal to
\* another when their files are equal one by one, that is by path.
Remove(groups, fl, members) ==
    LET paths(m) == [k \in DOMAIN m |-> fl[m[k]].path]
        first == CHOOSE k \in DOMAIN groups :
                    /\ paths(groups[k].members) = paths(members)
                    /\ \A l \in 1..(k - 1) : paths(groups[l].members) # paths(members)
    IN  SubSeq(groups, 1, first - 1) \o SubSeq(groups, first + 1, Len(groups))

\* One pass of the loop over the pairs: [groups, file_to_group, next], next
\* the id of the next new list.
group_one(st, fl, pair) ==
    LET file1 == pair[1]
        file2 == pair[2]
        group1 == find_group(st.file_to_group, fl[file1])
        group2 == find_group(st.file_to_group, fl[file2])
    IN  IF group1 = 0 /\ group2 = 0
        THEN [groups |-> Append(st.groups, [id |-> st.next, members |-> <<file1, file2>>]),
              file_to_group |-> Assign(st.file_to_group, fl, <<file1, file2>>, st.next),
              next |-> st.next + 1]
        ELSE IF group1 = 0
        THEN [st EXCEPT !.groups = Extend(@, group2, <<file1>>),
                        !.file_to_group = Assign(@, fl, <<file1>>, group2)]
        ELSE IF group2 = 0
        THEN [st EXCEPT !.groups = Extend(@, group1, <<file2>>),
                        !.file_to_group = Assign(@, fl, <<file2>>, group1)]
        ELSE IF group1 # group2
        THEN LET moved == MembersOf(st.groups, group2)
             IN  [st EXCEPT
                    !.groups = Remove(Extend(@, group1, moved), fl, moved),
                    !.file_to_group = Assign(@, fl, moved, group1)]
        ELSE st

RECURSIVE GroupLoop(_, _, _, _)
GroupLoop(st, fl, duplicate_pairs, k) ==
    IF k > Len(duplicate_pairs) THEN st
    ELSE GroupLoop(group_one(st, fl, duplicate_pairs[k]), fl, duplicate_pairs, k + 1)

\* list.sort(key) and list.sort(key, reverse=True): stable; Key gives the
\* key, a number, and sign is 1 or -1.
RECURSIVE SortedBy(_, _, _)
SortedBy(seq, Key(_), sign) ==
    IF seq = <<>> THEN <<>>
    ELSE LET n == Len(seq)
             front == SortedBy(SubSeq(seq, 1, n - 1), Key, sign)
             keep == Cardinality({ k \in 1..(n - 1) :
                                    sign * Key(front[k]) <= sign * Key(seq[n]) })
         IN  SubSeq(front, 1, keep) \o <<seq[n]>> \o SubSeq(front, keep + 1, n - 1)

\* _group_duplicates: the groups, each the list of its records, sorted by
\* name, the larger group first.
group_duplicates(duplicate_pairs, fl) ==
    LET st == GroupLoop([groups |-> <<>>, file_to_group |-> <<>>, next |-> 1],
                        fl, duplicate_pairs, 1)
        sorted == [k \in DOMAIN st.groups |->
                    SortedBy(st.groups[k].members,
                             LAMBDA i : NameRank(fl[i].path), 1)]
    IN  SortedBy(sorted, LAMBDA group : Len(group), -1)

----------------------------------------------------------------------------
(* find_duplicates and _group_duplicates on their own, over any list of up *)
(* to MaxRecords records as classify_multiple_directories returns them: a  *)
(* file is in the list once for every selected directory it is below, and  *)
(* each time with the hash of what it held when it was read, or with none. *)

RecordChoices ==
    { [path |-> path, size |-> 2, extension |-> get_file_extension(path),
       category |-> get_category_for_extension(get_file_extension(path)),
       hash |-> hash, status |-> PENDING, destination |-> NoPath, error |-> ""] :
        path \in {TreeFile.a, TreeFile.b, TreeFile.c},
        hash \in {hexdigest("d1"), hexdigest("d2")} }
      \cup { classify_file(TreeFile.gone, TRUE, FALSE, [disk |-> <<>>, denied |-> NoDenied]) }

InitGroup ==
    \E n \in 0..MaxRecords : \E fl \in [1..n -> RecordChoices] :
        /\ clock = 0
        /\ mover = [collision_policy |-> SUFFIX, use_source_parent |-> FALSE]
        /\ sessions = <<>>
        /\ files = fl
        /\ plans = <<>>
        /\ readonly = {}
        /\ last = NoCall
        /\ disk = <<>>
        /\ dirs = {}
        /\ classifier = [enable_hashing |-> TRUE]
        /\ scanner = DefaultScanner
        /\ denied = NoDenied
        /\ result = Input(<<>>)
        /\ pc = Idle

GroupDuplicates ==
    /\ result.op = "input"
    /\ result' = Call("group_duplicates", <<>>, FALSE,
                      group_duplicates(find_duplicates(files, classifier), files))
    /\ UNCHANGED <<moving, files, classifier, scanner, denied>>

NextGroup == GroupDuplicates

SpecGroup == InitGroup /\ [][NextGroup]_vars

----------------------------------------------------------------------------
(* What the claims speak of *)

Sessions == DOMAIN sessions
Records == DOMAIN files

\* The destination _move_file works with: the one set, else the computed one.
DestinationAtMove(i, s) ==
    IF files[i].destination = NoPath
    THEN get_destination_path(files[i], sessions[s].archive_path)
    ELSE files[i].destination

\* execute_archive on session s gets to its loop over the records.
ReachesLoop(s) ==
    /\ ~sessions[s].dry_run
    /\ create_directory_safe(sessions[s].archive_path, FS).ok

\* Record i is pending, its file is at its source path, and its destination
\* is a file on disk: execute_archive on s will find the collision.
Collides(i, s) ==
    /\ files[i].status = PENDING
    /\ files[i].path \in DOMAIN disk
    /\ DestinationAtMove(i, s) \in DOMAIN disk

----------------------------------------------------------------------------
\* C1: under the skip policy, a record that execute_archive reaches with its
\* destination already on disk ends Skipped with its destination unchanged,
\* its file still at the source path and the file at the destination not
\* replaced.
C1_SkipKeepsBothFiles ==
    [][\A s \in Sessions, i \in Records :
        (ExecuteArchive(s) /\ ReachesLoop(s) /\ mover.collision_policy = SKIP
            /\ Collides(i, s))
        => /\ files'[i].status = SKIPPED
           /\ files'[i].destination = DestinationAtMove(i, s)
           /\ files[i].path \in DOMAIN disk'
           /\ disk'[files[i].path] = disk[files[i].path]
           /\ disk'[DestinationAtMove(i, s)] = disk[DestinationAtMove(i, s)]]_vars

----------------------------------------------------------------------------
\* C2: on a dry-run session plan_archive, execute_archive and
\* rollback_session move no file and create no directory, and
\* execute_archive leaves the status of every record as it was.
C2_DryRunNeverMutates ==
    [][\A s \in Sessions :
        (sessions[s].dry_run
            /\ (PlanArchive(s) \/ ExecuteArchive(s) \/ RollbackSession(s)))
        => /\ disk' = disk
           /\ dirs' = dirs
           /\ (ExecuteArchive(s) =>
                \A i \in Records : files'[i].status = files[i].status)]_vars

\* C2 witness: execute_archive has returned on a dry-run session whose
\* records were planned.
C2_Witness ==
    /\ last.op = "execute_archive"
    /\ sessions[last.session].dry_run
    /\ \E i \in Records : files[i].destination # NoPath /\ files[i].status = PENDING

----------------------------------------------------------------------------
\* The archive root of session s is missing and its parent is read-only.
RootCannotBeCreated(s) ==
    /\ sessions[s].archive_path \notin dirs
    /\ Parent(sessions[s].archive_path) \in readonly

\* C3: when the archive root cannot be created, execute_archive on a live
\* session moves no file and leaves every record's status as it was.
C3_RootFailureMovesNothing ==
    [][\A s \in Sessions :
        (ExecuteArchive(s) /\ ~sessions[s].dry_run /\ RootCannotBeCreated(s))
        => /\ disk' = disk
           /\ \A i \in Records : files'[i].status = files[i].status]_vars

\* C3 witness: execute_archive came back from a live session whose root
\* could not be created, with a pending and an error record in it.
C3_Witness ==
    /\ last.op = "execute_archive"
    /\ ~sessions[last.session].dry_run
    /\ RootCannotBeCreated(last.session)
    /\ \E i, j \in Records : files[i].status = PENDING /\ files[j].status = ERROR

----------------------------------------------------------------------------
\* C4: in the loop of execute_archive every record that is not Error when
\* the call starts is processed, whatever happened to the records before it:
\* it ends Moved, or Error with the message captured; and no exception leaves
\* execute_archive.
C4_FailureIsolated ==
    [][\A s \in Sessions :
        (ExecuteArchive(s) /\ ReachesLoop(s))
        => /\ ~last'.raised
           /\ \A i \in Records :
                files[i].status # ERROR =>
                    \/ /\ files'[i].status = MOVED
                       /\ files[i].path \notin DOMAIN disk'
                    \/ /\ files'[i].status = ERROR
                       /\ files'[i].error # ""
                       /\ files[i].path \in DOMAIN disk' <=> files[i].path \in DOMAIN disk]_vars

\* C4 witness: the category directory of one record could not be created,
\* and a later record of the same call was moved.
C4_Witness ==
    /\ last.op = "execute_archive"
    /\ \E i, j \in Records :
        /\ i < j
        /\ files[i].status = ERROR /\ files[i].error = "mkdir"
        /\ files[j].status = MOVED /\ files[j].destination \in DOMAIN disk

----------------------------------------------------------------------------
\* C5: the status of a record changes only from Pending, and only to Moved,
\* Skipped or Error.
C5_StatusOnlyForward ==
    [][\A i \in Records :
        files'[i].status # files[i].status
        => files[i].status = PENDING /\ files'[i].status \in {MOVED, SKIPPED, ERROR}]_vars

----------------------------------------------------------------------------
\* The file system when the loop of execute_archive on s gets to record i:
\* the root made, the records before i processed.
FsAtRecord(i, s) ==
    ExecuteLoop(1, mover.collision_policy, SubSeq(files, 1, i - 1),
                sessions[s].archive_path,
                create_directory_safe(sessions[s].archive_path, FS).fs).fs

\* Record i is not Error and its destination is on disk when the loop of
\* execute_archive on s gets to it.
CollidesAtMove(i, s) ==
    /\ files[i].status # ERROR
    /\ DestinationAtMove(i, s) \in DOMAIN FsAtRecord(i, s).disk

\* stem_n + extension in the directory of path.
Suffixed(path, n) ==
    PathOf(path.parent, Name(Append(path.name.stem, ToString(n)), path.name.ext))

\* n is the smallest number >= 1 with Suffixed(path, n) not on disk d.
IsFirstFree(path, n, d) ==
    /\ n >= 1
    /\ Suffixed(path, n) \notin DOMAIN d
    /\ \A m \in 1..(n - 1) : Suffixed(path, m) \in DOMAIN d

\* C6: under the suffix policy a record whose destination is on disk at move
\* time gets the destination stem_N + extension in the same directory, N the
\* smallest number >= 1 whose path is not on disk then.
C6_SuffixFirstFree ==
    [][\A s \in Sessions, i \in Records :
        (ExecuteArchive(s) /\ ReachesLoop(s) /\ mover.collision_policy = SUFFIX
            /\ CollidesAtMove(i, s))
        => \E n \in 1..(Cardinality(DOMAIN disk) + 1) :
            /\ IsFirstFree(DestinationAtMove(i, s), n, FsAtRecord(i, s).disk)
            /\ files'[i].destination = Suffixed(DestinationAtMove(i, s), n)]_vars

\* C6 witness: a record was moved to x_2.txt past the files x.txt and
\* x_1.txt that were there before.
C6_Witness ==
    /\ last.op = "execute_archive"
    /\ mover.collision_policy = SUFFIX
    /\ \E i \in Records :
        /\ files[i].status = MOVED
        /\ files[i].destination.name = Name(<<"x", "2">>, Txt)
        /\ disk[files[i].destination].data = Pool[CHOOSE k \in DOMAIN Pool :
                                                Pool[k].path = files[i].path].data
        /\ \A n \in {NameX, NameX1} :
            /\ PathOf(files[i].destination.parent, n) \in DOMAIN disk
            /\ disk[PathOf(files[i].destination.parent, n)].data = "old"

----------------------------------------------------------------------------
\* C7: under the hash policy a record without a hash whose destination is on
\* disk at move time is moved to the first unused stem_N path, as under the
\* suffix policy, and ends Moved.
C7_HashFallsBackToSuffix ==
    [][\A s \in Sessions, i \in Records :
        (ExecuteArchive(s) /\ ReachesLoop(s) /\ mover.collision_policy = HASH
            /\ files[i].hash = NoHash /\ files[i].path \in DOMAIN disk
            /\ CollidesAtMove(i, s))
        => /\ files'[i].status = MOVED
           /\ \E n \in 1..(Cardinality(DOMAIN disk) + 1) :
                /\ IsFirstFree(DestinationAtMove(i, s), n, FsAtRecord(i, s).disk)
                /\ files'[i].destination = Suffixed(DestinationAtMove(i, s), n)]_vars

----------------------------------------------------------------------------
\* The file the classifier found at a source path.
OriginalFile(path) ==
    LET k == CHOOSE k \in DOMAIN Pool : Pool[k].path = path
    IN  [ino |-> k, data |-> Pool[k].data]

\* Every file of the session is at its source path, as it was found.
Restored(d) ==
    \A i \in Records :
        files[i].path \in DOMAIN d /\ d[files[i].path] = OriginalFile(files[i].path)

\* Nothing was moved yet: every file is at its source path, as it was found,
\* and no record is Moved.
Untouched == Restored(disk) /\ \A i \in Records : files[i].status # MOVED

\* Every record is Moved.
AllMoved == \A i \in Records : files[i].status = MOVED

\* Every record is Moved and its own file is at its recorded destination
\* (so no two records share a destination).
AllAtDestination ==
    \A i \in Records :
        /\ files[i].status = MOVED
        /\ files[i].destination \in DOMAIN disk
        /\ disk[files[i].destination] = OriginalFile(files[i].path)

\* C9, as claimed, at the overwrite policy: rollback_session after an
\* execute_archive that moved every record of a live session restores every
\* file to its source path with its content, whatever the file names.
C9_RollbackRestoresAfterOverwrite ==
    [][\A s \in Sessions :
        (RollbackSession(s) /\ ~sessions[s].dry_run /\ mover.collision_policy = OVERWRITE
            /\ last.op = "execute_archive" /\ last.session = s /\ AllMoved)
        => Restored(disk')]_vars

\* C9, amended: rollback_session on a live session in which every record is
\* Moved and has its own file at its recorded destination restores every file
\* to its source path with its content and returns true, for every collision
\* policy; and under the suffix policy an execute_archive that starts with
\* every record Pending and every file at its source, and moves every record,
\* leaves every file at its recorded destination, whatever the file names.
C9_RollbackRestores ==
    [][\A s \in Sessions :
        /\ (RollbackSession(s) /\ ~sessions[s].dry_run /\ AllAtDestination)
            => Restored(disk') /\ last'.ret
        /\ (ExecuteArchive(s) /\ ReachesLoop(s) /\ mover.collision_policy = SUFFIX
                /\ Untouched /\ \A i \in Records : files[i].status = PENDING)
            => ((\A i \in Records : files'[i].status = MOVED)
                => \A i \in Records :
                    /\ files'[i].destination \in DOMAIN disk'
                    /\ disk'[files'[i].destination] = OriginalFile(files[i].path))]_vars

\* C9 witness: two files of the same name were moved and rolled back, and
\* both are at their source paths again.
C9_Witness ==
    /\ last.op = "rollback_session"
    /\ last.ret
    /\ last.attempts = Len(files)
    /\ AllMoved
    /\ Restored(disk)
    /\ mover.collision_policy = SUFFIX
    /\ \E i, j \in Records : i # j /\ files[i].path.name = files[j].path.name

----------------------------------------------------------------------------
\* C10: after rollback_session on a live session no record is Moved, and a
\* rollback_session that follows a rollback_session attempts no move.
C10_RollbackLeavesNoneMoved ==
    [][\A s \in Sessions :
        (RollbackSession(s) /\ ~sessions[s].dry_run)
        => /\ \A i \in Records : files'[i].status # MOVED
           /\ (last.op = "rollback_session" => last'.attempts = 0)]_vars

----------------------------------------------------------------------------
\* C8: with no two records of one name, the destination that plan_archive on
\* a dry-run session d gave a pending record whose destination was not on
\* disk (a "move" operation) is where the file is after execute_archive on a
\* live session created after d over the same records, nothing having been
\* moved in between.
C8_DryRunDestinationIsFinal ==
    [][\A s \in Sessions, d \in Sessions :
        (ExecuteArchive(s) /\ ReachesLoop(s) /\ d < s /\ sessions[d].dry_run /\ Untouched
            /\ \A i, j \in Records : files[i].path.name = files[j].path.name => i = j)
        => \A k \in DOMAIN plans[d].operations :
            LET op == plans[d].operations[k]
            IN  (op.type = "move" /\ files[op.file].status = PENDING)
                => /\ op.destination \in DOMAIN disk'
                   /\ disk'[op.destination] = OriginalFile(op.source)]_vars

----------------------------------------------------------------------------
\* The keys of the table.
CategoryKeys == { CATEGORIES[k].category : k \in DOMAIN CATEGORIES }

\* C18: get_category_for_extension returns, for every string, a key of the
\* table and raises nothing; every string that differs from the argument in
\* the case of its letters only gets the same key; and an argument that,
\* lower-cased and without leading dots, is in no list of the table gets
\* "other".
C18_CategoryTotalCaseInsensitive ==
    result.op = "get_category_for_extension" =>
        /\ ~result.raised
        /\ result.value \in CategoryKeys
        /\ \A v \in ExtStrings :
            lower(v) = lower(result.args[1])
                => get_category_for_extension(v) = result.value
        /\ (\A k \in DOMAIN CATEGORIES :
                lstrip(lower(result.args[1]), ".") \notin CATEGORIES[k].extensions)
            => result.value = "other"

\* C18 witness: "PDF" was looked up and came out as documents.
C18_Witness ==
    /\ result.op = "get_category_for_extension"
    /\ result.args[1] = <<"P", "D", "F">>
    /\ result.value = "documents"

----------------------------------------------------------------------------
\* C15: the score _calculate_score returns is 0 for no files, lies between 0
\* and 10, and is not lowered by more files with the same number of
\* extensions nor by more extensions with the same number of files.
C15_ScoreBoundedMonotone ==
    result.op = "calculate_score" =>
        LET total_files == result.args[1]
            file_types == result.args[2]
        IN  /\ total_files = 0 => result.value = 0
            /\ result.value \in 0..1000
            /\ \A n \in FileCounts :
                n >= total_files => calculate_score(n, file_types) >= result.value
            /\ \A t \in TypeCounts :
                t >= file_types => calculate_score(total_files, t) >= result.value

\* C15 witness: 12 files with 4 extensions scored 3.91.
C15_Witness ==
    /\ result.op = "calculate_score"
    /\ result.args = <<12, 4>>
    /\ result.value = 391

----------------------------------------------------------------------------
\* C19: two sessions that two calls of create_session made have different
\* session_id values, and different archive roots.
C19_SessionIdUnique ==
    \A s, t \in Sessions :
        s # t => /\ sessions[s].session_id # sessions[t].session_id
                 /\ sessions[s].archive_path # sessions[t].archive_path

----------------------------------------------------------------------------
\* Records i and j of the list have one and the same hash.
SameHash(i, j) == files[i].hash # NoHash /\ files[i].hash = files[j].hash

\* C11: find_duplicates returns every two records of the list that share a
\* hash as one pair, whichever of the two comes first in it, and nothing
\* else: n(n-1)/2 pairs when all n records share one hash, none when no two
\* records share a hash.
C11_DuplicatePairs ==
    result.op = "find_duplicates" =>
        LET pairs == result.value
            n == Len(files)
        IN  /\ \A k \in 1..Len(pairs) :
                    /\ pairs[k][1] # pairs[k][2]
                    /\ SameHash(pairs[k][1], pairs[k][2])
            /\ \A i, j \in 1..n :
                    i < j /\ SameHash(i, j) =>
                        Cardinality({ k \in 1..Len(pairs) :
                                        pairs[k] \in {<<i, j>>, <<j, i>>} }) = 1
            /\ (\A i, j \in 1..n : SameHash(i, j)) => 2 * Len(pairs) = n * (n - 1)
            /\ (\A i, j \in 1..n : i # j => ~SameHash(i, j)) => pairs = <<>>

\* Three records of one hash gave three pairs.
C11_Witness ==
    /\ result.op = "find_duplicates"
    /\ Len(files) = 3
    /\ \A i, j \in 1..3 : SameHash(i, j)
    /\ Len(result.value) = 3

----------------------------------------------------------------------------
\* The file is not there, or it may not be read.
Unreadable(file_path) == file_path \notin DOMAIN disk \/ file_path \in denied.files

\* C12: classify_file never raises, and when reading the file failed (it
\* vanished, it may not be read, or the try block raised) the record it
\* returns has status Error, category "other", size 0 and an error text.
C12_ClassifyFailureIsError ==
    result.op = "classify_file" =>
        /\ ~result.raised
        /\ Unreadable(result.args[1]) \/ result.args[2] =>
                /\ result.value.status = ERROR
                /\ result.value.category = "other"
                /\ result.value.size = 0
                /\ result.value.error # ""

----------------------------------------------------------------------------
\* C13: with hashing disabled find_duplicates says that detection is not
\* available: its outcome is not the empty list that it returns with hashing
\* enabled when it found no duplicates.
C13_DisabledHashingIsReported ==
    result.op = "find_duplicates" /\ ~classifier.enable_hashing =>
        result.raised \/ result.value # <<>>

----------------------------------------------------------------------------
\* C16: scan_directory on a path that is not there, is no directory or may
\* not be read raises nothing and returns a DirectoryScore of 0 files, 0
\* types, size 0 and score 0.
C16_InvalidPathScoresZero ==
    result.op = "scan_directory" /\ ~validate_directory(result.args[1], ReadFS) =>
        /\ ~result.raised
        /\ result.value.total_files = 0
        /\ result.value.file_types = 0
        /\ result.value.total_size = 0
        /\ result.value.score = 0

----------------------------------------------------------------------------
\* The regular files of a scan that remain to be counted: the files in the
\* directory, or below it when the scan is recursive, that are not hidden
\* when hidden files are ignored and, in a recursive scan, not below a
\* system directory.
RemainingFiles(directory, scan_recursive) ==
    { p \in DOMAIN disk :
        /\ IF scan_recursive THEN IsBelow(p.parent, directory) ELSE p.parent = directory
        /\ ~(scanner.ignore_hidden /\ p.name.stem[1] \in DotNames)
        /\ ~(scan_recursive /\ \E d \in Ancestors(p.parent) : DirName(d) \in IGNORE_SYSTEM_DIRS) }

\* C17: scan_directory on a valid directory returns a DirectoryScore whose
\* total_files is the number of the remaining files and whose file_types is
\* the number of their distinct lower-cased extensions, the empty one left
\* out; with files and types its score is above 0.
C17_ValidDirectoryCounts ==
    result.op = "scan_directory" /\ validate_directory(result.args[1], ReadFS) =>
        /\ ~result.raised
        /\ LET counted == RemainingFiles(result.args[1],
                                         ScanRecursive(result.args[2], scanner))
               types == { lower(lstrip(p.name.ext, ".")) : p \in counted } \ {<<>>}
           IN  /\ result.value.total_files = Cardinality(counted)
               /\ result.value.file_types = Cardinality(types)
               /\ types # {} => result.value.score > 0

----------------------------------------------------------------------------
\* The directories of the list that hold at least the minimum of files.
Eligible(directories) ==
    { k \in 1..Len(directories) :
        /\ validate_directory(directories[k], ReadFS)
        /\ Cardinality(RemainingFiles(directories[k], scanner.recursive))
                >= MIN_FILES_FOR_RECOMMENDATION }

\* C14: get_recommendations returns scores of directories of at least
\* MIN_FILES_FOR_RECOMMENDATION files only, as many as there are such
\* directories in the list but at most top_n, in descending order of score.
C14_RecommendationsFilteredSorted ==
    result.op = "get_recommendations" =>
        /\ ~result.raised
        /\ \A k \in 1..Len(result.value) :
                result.value[k].total_files >= MIN_FILES_FOR_RECOMMENDATION
        /\ \A k, l \in 1..Len(result.value) :
                k < l => result.value[k].score >= result.value[l].score
        /\ Len(result.value) =
                Min(result.args[2], Cardinality(Eligible(result.args[1])))

----------------------------------------------------------------------------
\* The files the loop of scan_directory counts.
CountedFiles(directory, scan_recursive) ==
    IF ~validate_directory(directory, ReadFS) THEN {}
    ELSE LET items == glob(directory, scan_recursive, ReadFS)
         IN  { items[k].file : k \in { k \in 1..Len(items) :
                                        ~ScanSkips(items[k], scan_recursive, scanner) } }

\* C20: for one directory and one recursive flag, classify_directory returns
\* records of the files that scan_directory counts, and of no other file;
\* the scanner ignores hidden files, as it does unless told otherwise.
C20_SameTraversal ==
    result.op = "classify_directory" /\ scanner.ignore_hidden =>
        { files[k].path : k \in 1..Len(files) }
            = CountedFiles(result.args[1], result.args[2])

----------------------------------------------------------------------------
\* archive_path / display name of the category / file name of record i.
Routed(i, s) ==
    PathOf(Append(sessions[s].archive_path, <<CategoryDisplay(files[i].category)>>),
           files[i].path.name)

\* The operations and the warnings of a plan that are about record i.
OperationsOf(plan, i) == { k \in DOMAIN plan.operations : plan.operations[k].file = i }
WarningsOf(plan, i) == { k \in DOMAIN plan.warnings : plan.warnings[k].file = i }

\* C21: plan_archive gives every record the destination archive_path /
\* display name of its category / its file name; a record whose destination
\* is on disk keeps it, has one warning and an operation of type
\* move_with_collision, any other record an operation of type move and no
\* warning.
C21_PlanAssignsDestination ==
    [][\A s \in Sessions, i \in Records :
        PlanArchive(s)
        => /\ files'[i].destination = Routed(i, s)
           /\ \A k \in OperationsOf(plans'[s], i) :
                /\ plans'[s].operations[k].destination = Routed(i, s)
                /\ plans'[s].operations[k].type =
                        IF Routed(i, s) \in DOMAIN disk
                        THEN "move_with_collision" ELSE "move"
           /\ OperationsOf(plans'[s], i) # {}
           /\ Cardinality(WarningsOf(plans'[s], i)) =
                    IF Routed(i, s) \in DOMAIN disk THEN 1 ELSE 0]_vars

\* C21 witness: a plan of two records, the destination of one on disk, the
\* destination of the other free.
C21_Witness ==
    /\ last.op = "plan_archive"
    /\ \E i, j \in Records :
        /\ files[i].destination = Routed(i, last.session)
        /\ files[i].destination \in DOMAIN disk
        /\ files[j].destination \notin DOMAIN disk
        /\ \E k, l \in DOMAIN plans[last.session].operations :
            /\ plans[last.session].operations[k].file = i
            /\ plans[last.session].operations[k].type = "move_with_collision"
            /\ plans[last.session].operations[l].file = j
            /\ plans[last.session].operations[l].type = "move"
        /\ Len(plans[last.session].warnings) = 1

----------------------------------------------------------------------------
\* The records whose destination cannot be computed: they have no category.
Unroutable == { i \in Records : files[i].category = NoCategory }

\* C22: after plan_archive the plan holds one operation for every record
\* whose destination was computed, in the order of the records, and none for
\* a record whose destination could not be computed: that record is Error
\* and has one warning; operations and failed records add up to the records.
C22_OneOperationPerRoutedRecord ==
    [][\A s \in Sessions :
        PlanArchive(s)
        => LET operations == plans'[s].operations
           IN  /\ \A i \in Records \ Unroutable :
                        Cardinality(OperationsOf(plans'[s], i)) = 1
               /\ \A k, l \in DOMAIN operations :
                        k < l => operations[k].file < operations[l].file
               /\ \A i \in Unroutable :
                        /\ files'[i].status = ERROR
                        /\ OperationsOf(plans'[s], i) = {}
                        /\ Cardinality(WarningsOf(plans'[s], i)) = 1
               /\ Len(operations) + Cardinality(Unroutable) = Len(files)]_vars

\* C22 witness: a plan of two records, the first of which could not be
\* routed: one operation, for the second record, and one warning.
C22_Witness ==
    /\ last.op = "plan_archive"
    /\ Len(files) = 2
    /\ Unroutable = {1}
    /\ files[1].status = ERROR
    /\ Len(plans[last.session].operations) = 1
    /\ plans[last.session].operations[1].file = 2
    /\ \E k \in DOMAIN plans[last.session].warnings :
            plans[last.session].warnings[k] = [kind |-> "error", file |-> 1]

----------------------------------------------------------------------------
\* C23: execute_archive leaves a record that is Error when the call starts
\* as it is, status, destination and error message, and leaves its file at
\* its source path.
C23_ErrorRecordNeverMoved ==
    [][\A s \in Sessions, i \in Records :
        (ExecuteArchive(s) /\ files[i].status = ERROR)
        => /\ files'[i] = files[i]
           /\ files[i].path \in DOMAIN disk =>
                /\ files[i].path \in DOMAIN disk'
                /\ disk'[files[i].path] = disk[files[i].path]]_vars

\* C23 witness: execute_archive moved a record and left alone, at its source
\* path, the file of a record that was Error from the planning or the
\* classification.
C23_Witness ==
    /\ last.op = "execute_archive"
    /\ last.ret
    /\ \E i, j \in Records :
        /\ files[i].status = ERROR
        /\ files[i].error \in {"plan", "classify"}
        /\ files[i].path \in DOMAIN disk
        /\ files[j].status = MOVED
        /\ files[j].destination \in DOMAIN disk

----------------------------------------------------------------------------
\* The records rollback_session tries to move back.
ToRollBack == { i \in Records : files[i].status = MOVED /\ files[i].destination # NoPath }

\* C24: rollback_session on a live session tries to move back every record
\* that is Moved and has a destination, those after a failure too, and
\* returns true exactly when the files it moved back, each from its
\* destination to its source path, are as many as the records that were
\* Moved.
C24_RollbackBestEffort ==
    [][\A s \in Sessions :
        (RollbackSession(s) /\ ~sessions[s].dry_run)
        => /\ last'.attempts = Cardinality(ToRollBack)
           /\ last'.ret <=>
                Cardinality({ i \in ToRollBack :
                                /\ files[i].destination \in DOMAIN disk
                                /\ files[i].path \in DOMAIN disk'
                                /\ disk'[files[i].path] = disk[files[i].destination] })
                    = success_count(files)]_vars

\* C24 witness: of three Moved records one could not be moved back, its
\* file is nowhere, and a later one was; the call returned false.
C24_Witness ==
    /\ last.op = "rollback_session"
    /\ last.attempts = 3
    /\ ~last.ret
    /\ \E i, j \in Records :
        /\ i < j
        /\ files[i].status = MOVED /\ files[j].status = MOVED
        /\ files[i].path \notin DOMAIN disk
        /\ files[j].path \in DOMAIN disk
        /\ files[j].destination \notin DOMAIN disk

----------------------------------------------------------------------------
\* The directories from directory, left out, down to dir.
Between(directory, dir) ==
    { d \in Ancestors(dir) : Len(d) > Len(directory) /\ IsBelow(d, directory) }

\* C25: a recursive scan counts a regular file below the scanned directory,
\* not hidden when hidden files are ignored, exactly when no directory from
\* the scanned one down to the file has the name of a system directory; the
\* names of the directories above the scanned one count for nothing.
C25_SystemDirsBelowOnly ==
    (/\ result.op = "scan_directory"
     /\ ScanRecursive(result.args[2], scanner)
     /\ validate_directory(result.args[1], ReadFS))
    => CountedFiles(result.args[1], TRUE) =
            { p \in DOMAIN disk :
                /\ IsBelow(p.parent, result.args[1])
                /\ ~(scanner.ignore_hidden /\ p.name.stem[1] \in DotNames)
                /\ \A d \in Between(result.args[1], p.parent) :
                        DirName(d) \notin IGNORE_SYSTEM_DIRS }

----------------------------------------------------------------------------
\* The records of a group, and the hashes that at least two records share.
GroupSet(group) == { group[k] : k \in DOMAIN group }
SharedHashes ==
    { files[i].hash : i \in { i \in Records : \E j \in Records : i # j /\ SameHash(i, j) } }

\* C26: _group_duplicates of the pairs of find_duplicates gives one group
\* for every hash that at least two records of the list share, the group
\* holding the records of that hash and no other; no record is in two groups
\* or twice in one.
C26_GroupsAreHashClasses ==
    result.op = "group_duplicates" =>
        LET groups == result.value
        IN  /\ \A h \in SharedHashes :
                    Cardinality({ k \in DOMAIN groups :
                        GroupSet(groups[k]) = { i \in Records : files[i].hash = h } }) = 1
            /\ Len(groups) = Cardinality(SharedHashes)
            /\ \A k \in DOMAIN groups : Cardinality(GroupSet(groups[k])) = Len(groups[k])
            /\ \A k, l \in DOMAIN groups :
                    k # l => GroupSet(groups[k]) \cap GroupSet(groups[l]) = {}

----------------------------------------------------------------------------
\* C27: under the suffix policy an execute_archive that gets to its loop
\* overwrites and loses no file: every file on disk before the call is on
\* disk after it, a file below the archive base where it was; no two records
\* end Moved with one destination; and of two records of one name and one
\* category, the only two of that name, both pending with their files at
\* their source paths and the names name and name_1 free, both moved, the
\* first is at name and the second at name_1.
C27_SuffixNeverOverwrites ==
    [][\A s \in Sessions :
        (ExecuteArchive(s) /\ ReachesLoop(s) /\ mover.collision_policy = SUFFIX)
        => /\ \A p \in DOMAIN disk : \E q \in DOMAIN disk' : disk'[q] = disk[p]
           /\ \A p \in DOMAIN disk :
                IsBelow(p.parent, ARCHIVE_BASE_DIR)
                    => p \in DOMAIN disk' /\ disk'[p] = disk[p]
           /\ \A i, j \in Records :
                (i # j /\ files'[i].status = MOVED /\ files'[j].status = MOVED)
                    => files'[i].destination # files'[j].destination
           /\ \A i, j \in Records :
                (/\ i < j
                 /\ \A k \in Records \ {i, j} : files[k].path.name # files[i].path.name
                 /\ Untouched
                 /\ files[i].status = PENDING /\ files[j].status = PENDING
                 /\ files[i].path.name = files[j].path.name
                 /\ files[i].category = files[j].category
                 /\ Routed(i, s) \notin DOMAIN disk
                 /\ Suffixed(Routed(i, s), 1) \notin DOMAIN disk
                 /\ files'[i].status = MOVED /\ files'[j].status = MOVED)
                    => /\ files'[i].destination = Routed(i, s)
                       /\ files'[j].destination = Suffixed(Routed(i, s), 1)
                       /\ disk'[files'[i].destination] = OriginalFile(files[i].path)
                       /\ disk'[files'[j].destination] = OriginalFile(files[j].path)]_vars

\* C27 witness: two records of the name x.txt were moved to x_1.txt and
\* x_2.txt, and the x.txt that was in the archive is as it was.
C27_Witness ==
    /\ last.op = "execute_archive"
    /\ last.ret
    /\ mover.collision_policy = SUFFIX
    /\ \E i, j \in Records :
        /\ i < j
        /\ files[i].path.name = NameX /\ files[j].path.name = NameX
        /\ files[i].status = MOVED /\ files[j].status = MOVED
        /\ files[i].destination.name = NameX1
        /\ files[j].destination.name = Name(<<"x", "2">>, Txt)
        /\ disk[files[i].destination] = OriginalFile(files[i].path)
        /\ disk[files[j].destination] = OriginalFile(files[j].path)
        /\ PathOf(files[i].destination.parent, NameX) \in DOMAIN disk
        /\ disk[PathOf(files[i].destination.parent, NameX)].data = "old"

----------------------------------------------------------------------------
\* C28: under the hash policy a record with a hash whose destination is on
\* disk at move time gets a destination that is not on disk then, and the
\* call replaces no file below the archive base.
C28_HashDestinationIsFree ==
    [][\A s \in Sessions :
        (ExecuteArchive(s) /\ ReachesLoop(s) /\ mover.collision_policy = HASH)
        => /\ \A i \in Records :
                (files[i].hash # NoHash /\ files[i].path \in DOMAIN disk
                    /\ CollidesAtMove(i, s))
                => files'[i].destination \notin DOMAIN FsAtRecord(i, s).disk
           /\ \A p \in DOMAIN disk :
                IsBelow(p.parent, ARCHIVE_BASE_DIR)
                    => p \in DOMAIN disk' /\ disk'[p] = disk[p]]_vars

----------------------------------------------------------------------------
\* C29: a record that execute_archive on a live session moved has its
\* destination below the archive root of that session, whether plan_archive
\* was last called on that session or on another one, a dry-run session.
C29_MovedUnderOwnRoot ==
    [][\A s \in Sessions, i \in Records :
        (ExecuteArchive(s) /\ ReachesLoop(s)
            /\ (\A d \in Sessions \ {s} : sessions[d].dry_run)
            /\ files[i].status = PENDING /\ files'[i].status = MOVED)
        => IsBelow(files'[i].destination.parent, sessions[s].archive_path)]_vars

----------------------------------------------------------------------------
(* execute_archive step by step: one step for the entry, one for each pass  *)
(* of the loop over the records, one for each probe of the suffix loop and  *)
(* each call of the hash fallback, and one for the return.                  *)

\* The position: in the loop over the records at record i; in the probe loop
\* of the suffix policy with counter n; in the hash fallback n calls deep.
At(at, s, i, n) == [at |-> at, session |-> s, i |-> i, n |-> n]

\* The record with the destination _move_file takes for it.
Destined(file_info, session_path) ==
    IF file_info.destination # NoPath THEN file_info
    ELSE [file_info EXCEPT
            !.destination = get_destination_path(file_info, session_path)]

\* The pass over file_info comes to the while loop of the suffix policy or to
\* the fallback of the hash policy: the record is not passed over, it has or
\* gets a destination, the category directory is made, a file is there.
Loops(policy, file_info, session_path, fs) ==
    /\ file_info.status # ERROR
    /\ file_info.destination # NoPath \/ ~DestinationRaises(file_info)
    /\ LET f == Destined(file_info, session_path)
           made == create_directory_safe(f.destination.parent, fs)
       IN  /\ made.ok
           /\ Exists(f.destination, made.fs)
           /\ policy = SUFFIX \/ (policy = HASH /\ file_info.hash = NoHash)

\* counter += 1 that leaves the counter as it is.
next_counter_kept(counter) == counter

\* counter += 1
next_counter(counter) == counter + 1

\* The dry-run guard and the making of the root.
ExecuteBegin(s) ==
    /\ pc.at = "idle"
    /\ \E made \in {create_directory_safe(sessions[s].archive_path, FS)} :
        IF sessions[s].dry_run \/ ~made.ok
        THEN /\ pc' = At("done", s, 0, 0)
             /\ dirs' = IF sessions[s].dry_run THEN dirs ELSE made.fs.dirs
             /\ last' = [NoCall EXCEPT !.op = "execute_archive", !.session = s,
                                       !.ret = FALSE]
        ELSE /\ pc' = At("loop", s, 1, 0)
             /\ dirs' = made.fs.dirs
             /\ last' = last
    /\ UNCHANGED <<clock, mover, sessions, files, plans, disk, readonly,
                   classifier, scanner, denied, result>>

\* One pass of the loop over the records, up to the suffix loop or the hash
\* fallback when the pass comes to one of them, and to its end otherwise.
ExecuteRecord ==
    /\ pc.at = "loop"
    /\ pc.i <= Len(files)
    /\ LET session_path == sessions[pc.session].archive_path
           policy == mover.collision_policy
       IN  IF Loops(policy, files[pc.i], session_path, FS)
           THEN \E f \in {Destined(files[pc.i], session_path)} :
                   /\ files' = [files EXCEPT ![pc.i] = f]
                   /\ dirs' = create_directory_safe(f.destination.parent, FS).fs.dirs
                   /\ disk' = disk
                   /\ pc' = IF policy = SUFFIX
                            THEN At("probe", pc.session, pc.i, 1)
                            ELSE At("fallback", pc.session, pc.i, 0)
           ELSE \E r \in {execute_one(policy, files[pc.i], session_path, FS)} :
                   /\ files' = [files EXCEPT ![pc.i] = r.file_info]
                   /\ disk' = r.fs.disk
                   /\ dirs' = r.fs.dirs
                   /\ pc' = At("loop", pc.session, pc.i + 1, 0)
    /\ UNCHANGED <<clock, mover, sessions, plans, readonly, last,
                   classifier, scanner, denied, result>>

\* The rest of the pass over record pc.i when _handle_collision ended as res.
Resolved(res) ==
    \E r \in {Caught(MoveResolved(files[pc.i], res, FS))} :
        /\ files' = [files EXCEPT ![pc.i] = r.file_info]
        /\ disk' = r.fs.disk
        /\ dirs' = r.fs.dirs
        /\ pc' = At("loop", pc.session, pc.i + 1, 0)

\* One turn of the while loop of the suffix policy.
ProbeStep ==
    /\ pc.at = "probe"
    /\ LET file_info == files[pc.i]
           new_destination == Suffixed(file_info.destination, pc.n)
       IN  IF ~Exists(new_destination, FS)
           THEN Resolved([file_info |-> file_info, destination |-> new_destination,
                          raised |-> FALSE])
           ELSE /\ pc' = [pc EXCEPT !.n = next_counter(pc.n)]
                /\ UNCHANGED <<files, disk, dirs>>
    /\ UNCHANGED <<clock, mover, sessions, plans, readonly, last,
                   classifier, scanner, denied, result>>

\* One call of the fallback of the hash policy, which calls itself.
FallbackStep ==
    /\ pc.at = "fallback"
    /\ IF pc.n > MaxRecursion
       THEN Resolved([file_info |-> files[pc.i],
                      destination |-> files[pc.i].destination, raised |-> TRUE])
       ELSE /\ pc' = [pc EXCEPT !.n = pc.n + 1]
            /\ UNCHANGED <<files, disk, dirs>>
    /\ UNCHANGED <<clock, mover, sessions, plans, readonly, last,
                   classifier, scanner, denied, result>>

\* The loop is over: execute_archive returns the session.
ExecuteReturn ==
    /\ pc.at = "loop"
    /\ pc.i > Len(files)
    /\ pc' = At("done", pc.session, pc.i, 0)
    /\ last' = [NoCall EXCEPT !.op = "execute_archive", !.session = pc.session]
    /\ UNCHANGED <<clock, mover, sessions, files, plans, disk, dirs, readonly,
                   classifier, scanner, denied, result>>

\* One session, planned or not, and one call of execute_archive on it.
InitRun ==
    \E policy \in CollisionPolicy, pick \in FilePicks, pre \in SUBSET PreNames :
    \E enable_hashing \in HashingChoices(policy), ro \in ReadonlyChoices(pick) :
    \E dry_run \in BOOLEAN :
        /\ Start(policy, enable_hashing, pick, pre, ro)
        /\ clock = 1
        /\ sessions = <<NewSession(FALSE, SelectedDirs(files), dry_run, 1)>>
        /\ plans = <<NoPlan>>
        /\ last = [NoCall EXCEPT !.op = "create_session", !.session = 1]

PlanFirst == pc.at = "idle" /\ last.op = "create_session" /\ PlanArchive(1)

Run ==
    \/ ExecuteBegin(1)
    \/ ExecuteRecord
    \/ ProbeStep
    \/ FallbackStep
    \/ ExecuteReturn

NextRun == PlanFirst \/ Run

\* The interpreter goes on with a call that has begun.
SpecRun == InitRun /\ [][NextRun]_vars /\ WF_vars(Run)

\* C30: execute_archive on a live session whose archive root was created
\* terminates, under every collision policy and with any of the files that
\* may be in the archive before, and when it returns no record is left
\* pending: every record is moved, skipped or error.
C30_ExecuteTerminates ==
    (pc.at \in {"loop", "probe", "fallback"})
        ~> (/\ pc.at = "done"
            /\ last.op = "execute_archive" /\ last.ret
            /\ \A i \in 1..Len(files) : files[i].status \in {MOVED, SKIPPED, ERROR})

\* The call returned after the suffix loop went past its first turn, or after
\* the hash fallback ran out of stack.
C30_Witness ==
    /\ pc.at = "done" /\ last.ret
    /\ \E i \in 1..Len(files) :
        \/ /\ files[i].status = MOVED
           /\ files[i].destination.name.stem = <<"x", ToString(MaxSuffix)>>
           /\ mover.collision_policy = SUFFIX
        \/ files[i].status = ERROR /\ files[i].error = "recursion"

====
